---- MODULE Spec2Model ----
(***************************************************************************)
(* Sentiguard: the multi-phase sentiment scoring engine (analyzer.py), the *)
(* incremental history analyzer, the alert threshold engine (analyzer.py,  *)
(* gui.py) and session teardown (gui.py, main.py).                         *)
(*                                                                         *)
(* Numbers.  Python floats are modelled in fixed point: a score is an      *)
(* integer number of hundredths (ScoreUnit = 100 stands for 1.0), and a    *)
(* circadian baseline is an integer number of ten-thousandths, so that the *)
(* exponential moving average keeps two more digits than a score.          *)
(* Rounding is to the nearest unit.                                        *)
(*                                                                         *)
(* Text.  A text is a sequence of tokens.  A token is a word, one of the   *)
(* key phrases of the vocabularies of analyzer.py, or the blank " ".       *)
(* str.lower, str.strip, slicing and the substring test `phrase in text`   *)
(* are operators on such sequences.                                        *)
(***************************************************************************)
EXTENDS Integers, Sequences, FiniteSets, TLC

VARIABLES
  SPACY_ENABLED,           \* the syntactic parser was loaded at start
  EMBEDDINGS_ENABLED,      \* the sentence embedding was loaded at start
  hour,                    \* datetime.now().hour, the engine's clock
  sentiment_cache,         \* _sentiment_cache: insertion-ordered <<[key, score]>>
  sentiment_history,       \* _sentiment_history: deque(maxlen=10)
  message_context_window,  \* _message_context_window: deque(maxlen=5)
  circadian,               \* circadian_baseline.json: hour -> baseline
  concerning_log,          \* concerning_analysis.json
  cwd,                     \* the process's working directory
  keystrokes,              \* keystrokes.txt of each directory: lines
  alert_status,            \* alert_status.json of each directory: its last_alert_line
  alerts_log,              \* alerts_log.json of each directory
  mood_history,            \* mood_history.json of each directory
  analysis_cache,          \* _analysis_cache
  last_file_size,          \* _last_file_size
  mood_buffer,             \* _mood_buffer
  guardian_email,          \* user_settings.json holds a guardian address
  sent,                    \* calls received by the Notification Sender
  session,                 \* "running" until a teardown path has run
  io_down,                 \* the files whose open() raises OSError for now
  popup,                   \* where show_guardian stands: "none", or "checked"
                           \* between its alert check and its state read
  checking,                \* the alert check that has read the log and not yet
                           \* committed: its function and what it counted
  ret,                     \* what the last operation returned and did
  obs                      \* history variables the properties read

vars == <<SPACY_ENABLED, EMBEDDINGS_ENABLED, hour, sentiment_cache, sentiment_history, message_context_window,
          circadian, concerning_log, cwd, keystrokes, alert_status, alerts_log,
          mood_history, analysis_cache, last_file_size, mood_buffer,
          guardian_email, sent, session, io_down, popup, checking, ret, obs>>

-----------------------------------------------------------------------------
(* Fixed point arithmetic *)

ScoreUnit == 100
BaselineUnit == 10000

Min(a, b) == IF a < b THEN a ELSE b
Max(a, b) == IF a > b THEN a ELSE b
Abs(a) == IF a < 0 THEN -a ELSE a

\* a / b rounded to the nearest integer, b > 0
RoundDiv(a, b) == (2 * a + b) \div (2 * b)

RECURSIVE SumSeq(_)
SumSeq(s) ==
  IF s = <<>> THEN 0
  ELSE IF Len(s) = 1 THEN s[1]
  ELSE LET mid == Len(s) \div 2
       IN  SumSeq(SubSeq(s, 1, mid)) + SumSeq(SubSeq(s, mid + 1, Len(s)))

\* the largest r in lo..hi with r * r <= x, by bisection (lo * lo <= x)
RECURSIVE Bisect(_, _, _)
Bisect(x, lo, hi) ==
  IF lo >= hi THEN lo
  ELSE LET mid == (lo + hi + 1) \div 2
       IN  IF mid * mid <= x THEN Bisect(x, mid, hi) ELSE Bisect(x, lo, mid - 1)

\* the integer square root of x >= 0, at most hi
ISqrt(x, hi) == Bisect(x, 0, hi)

RECURSIVE SeqFilter(_, _)
SeqFilter(s, keep) ==
  IF s = <<>> THEN <<>>
  ELSE IF Len(s) = 1 THEN (IF s[1] \in keep THEN s ELSE <<>>)
  ELSE LET mid == Len(s) \div 2
       IN  SeqFilter(SubSeq(s, 1, mid), keep)
             \o SeqFilter(SubSeq(s, mid + 1, Len(s)), keep)

LastN(s, n) == IF Len(s) <= n THEN s ELSE SubSeq(s, Len(s) - n + 1, Len(s))
FirstN(s, n) == IF Len(s) <= n THEN s ELSE SubSeq(s, 1, n)

-----------------------------------------------------------------------------
(* Vocabularies and thresholds of analyzer.py *)

PROFANITY_WORDS ==
  {"fuck", "shit", "damn", "hell", "ass", "bitch", "crap", "piss",
   "bastard", "dick", "cock", "pussy", "slut", "whore", "retard"}

SARCASM_MARKERS ==
  {"oh great", "yeah right", "sure thing", "totally", "obviously",
   "clearly", "brilliant", "fantastic", "wonderful", "perfect",
   "just perfect", "love it", "thanks a lot", "just what i needed"}

CRISIS_KEYWORDS ==
  {"suicide", "kill myself", "end it all", "no point", "better off dead",
   "self harm", "cut myself", "want to die", "give up", "hopeless",
   "worthless", "hate myself", "disappear forever"}

VENTING_INDICATORS ==
  {"ugh", "argh", "gah", "wtf", "fml", "smh", "jfc", "omfg",
   "i swear", "i cant", "why does", "every time", "always happens"}

GAMING_VOCABULARY ==
  {"gg", "glhf", "ggwp", "ez", "rekt", "pwned", "noob", "clutch",
   "ace", "headshot", "respawn", "loot", "nerf", "buff", "op",
   "camping", "griefing", "ganking", "farming", "speedrun",
   "ragequit", "tilted", "carried", "feeding", "stomped"}

\* MODERN_IDIOMS in the dict's order, which the keyword fallback iterates
IdiomOrder ==
  <<"no cap", "fr fr", "lowkey", "highkey", "slaps", "hits different",
    "bussin", "mid", "its giving", "ate", "slay", "vibe check",
    "main character energy", "rent free", "understood the assignment",
    "touch grass", "chronically online", "unhinged">>

IdiomWeights ==
  <<30, 20, 0, 10, 80, 60, 90, -30, 0, 70, 80, 0, 60, -20, 80, -40, -30, -20>>

MODERN_IDIOMS == [i \in {IdiomOrder[k] : k \in 1..Len(IdiomOrder)} |->
                    IdiomWeights[CHOOSE k \in 1..Len(IdiomOrder) : IdiomOrder[k] = i]]

THRESHOLD == -30
ALERT_LIMIT == 5
cache_max_size == 100
cache_keep == 80
KeyLen == 100
WindowLen == 10
ContextLen == 5
ConcerningKeep == 50
mood_buffer_size == 10
MoodHistoryKeep == 500
CrisisCap == -70
ArmedOver == 10

-----------------------------------------------------------------------------
(* Text *)

Blank == " "

\* str.lower on one token: the tokens written in capitals and their lower case
LowerTable ==
  [t \in {"I", "WANT TO DIE", "Happy", "GG"} |->
     CASE t = "I" -> "i"
       [] t = "WANT TO DIE" -> "want to die"
       [] t = "Happy" -> "happy"
       [] t = "GG" -> "gg"]

LowerTok(t) == IF t \in DOMAIN LowerTable THEN LowerTable[t] ELSE t

\* str.lower
Lower(text) == [i \in 1..Len(text) |-> LowerTok(text[i])]

RECURSIVE LStrip(_)
LStrip(text) ==
  IF text # <<>> /\ Head(text) = Blank THEN LStrip(Tail(text)) ELSE text

RECURSIVE RStrip(_)
RStrip(text) ==
  IF text # <<>> /\ text[Len(text)] = Blank
  THEN RStrip(SubSeq(text, 1, Len(text) - 1)) ELSE text

\* str.strip
Strip(text) == RStrip(LStrip(text))

\* The vocabulary phrases that occur inside a token as substrings of its
\* characters, besides the token itself: "hate myself" holds "ate",
\* "hopeless" holds "op", "hello" holds "hell", "middle" holds "mid".
InnerPhrases(tok) ==
  CASE tok = "hate myself" -> {"ate"}
    [] tok = "hopeless" -> {"op"}
    [] tok = "hello" -> {"hell"}
    [] tok = "middle" -> {"mid"}
    [] tok = "just perfect" -> {"perfect"}
    [] OTHER -> {}

\* `phrase in text_lower`
In(phrase, textLower) ==
  \E i \in 1..Len(textLower) :
    phrase = textLower[i] \/ phrase \in InnerPhrases(textLower[i])

\* sum(1 for p in phrases if p in text_lower)
CountIn(phrases, textLower) == Cardinality({p \in phrases : In(p, textLower)})

-----------------------------------------------------------------------------
(* External models: the pretrained classifier, the contextual analyzer,    *)
(* the syntactic parser and the sentence embedding.  Each is a fixed       *)
(* function of the text.                                                   *)

\* What the classifier has learned of each lower-case token, in hundredths
Polarity(tok) ==
  CASE tok = "happy" -> 100
    [] tok = "wonderful" -> 90
    [] tok = "oh great" -> 60
    [] tok = "fine" -> 20
    [] tok = "sad" -> -80
    [] tok = "awful" -> -100
    [] tok = "want to die" -> -90
    [] tok = "hate myself" -> -85
    [] tok = "hopeless" -> -80
    [] tok = "fuck" -> -60
    [] tok = "shit" -> -50
    [] tok = "ugh" -> -40
    [] tok = "fml" -> -40
    [] OTHER -> 0

Clamp(x) == Max(-ScoreUnit, Min(ScoreUnit, x))

TextPolarity(text) ==
  Clamp(SumSeq([i \in 1..Len(text) |-> Polarity(LowerTok(text[i]))]))

\* inputs on which a model call raises
ClassifierRaises(text) == \E i \in 1..Len(text) : text[i] = "<bad-encoding>"
ParserRaises(text) == \E i \in 1..Len(text) : text[i] = "<bad-parse>"

\* cardiff_pipeline(text): a label with a confidence
cardiff_pipeline(text) ==
  LET p == TextPolarity(text)
  IN  [label |-> IF p > 0 THEN "positive" ELSE IF p < 0 THEN "negative" ELSE "neutral",
       score |-> IF p = 0 THEN 70 ELSE Abs(p)]

cardiff_to_score(result) ==
  IF result.label = "positive" THEN result.score
  ELSE IF result.label = "negative" THEN -result.score
  ELSE 0

\* base_score of analyze_sentiment and of detect_profanity_shift
BaseScore(text) == cardiff_to_score(cardiff_pipeline(FirstN(text, 512)))

\* enhanced_analyzer.analyze_context(text): a second, independent scorer that
\* supplies an adjusted compound value and flags
analyze_context(text) ==
  LET low == Lower(text)
      sarcastic == \E m \in SARCASM_MARKERS : In(m, low)
      concern == \E k \in CRISIS_KEYWORDS : In(k, low)
      compound == TextPolarity(text)
      adjusted == IF sarcastic /\ compound > 0 THEN -compound ELSE compound
  IN  [original_vader |-> compound,
       adjusted_compound |-> adjusted,
       is_sarcastic |-> sarcastic,
       mental_health_concern |-> concern,
       needs_attention |-> concern \/ adjusted <= -80]

\* nlp(text): adjectives of positive sentiment, verbs of negative sentiment,
\* and the number of sentences (a "." token ends a sentence)
PositiveAdjectives == {"happy", "wonderful", "brilliant", "fantastic", "perfect", "fine"}
NegativeVerbs == {"hate myself", "want to die", "give up", "fuck"}
nlp(text) ==
  [positive_adj |-> Cardinality({i \in 1..Len(text) : LowerTok(text[i]) \in PositiveAdjectives}),
   negative_verb |-> \E i \in 1..Len(text) : LowerTok(text[i]) \in NegativeVerbs,
   sents |-> 1 + Cardinality({i \in 1..Len(text) - 1 : text[i] = "."})]

\* embedding_model.encode(text): the set of the text's lower-case words
encode(text) == {LowerTok(text[i]) : i \in {j \in 1..Len(text) : text[j] # Blank}}

\* st_util.cos_sim of two encodings, in thousandths: the cosine of two
\* bags of words
cos_sim(a, b) ==
  IF a \cap b = {} THEN 0
  ELSE LET c == Cardinality(a \cap b)
       IN  ISqrt((1000000 * c * c) \div (Cardinality(a) * Cardinality(b)), 1000)

-----------------------------------------------------------------------------
(* Phase 1: statistical analysis *)

\* re.sub(r'\b' + word + r'\b', '', text, flags=re.IGNORECASE) for every word
RemoveProfanity(text) ==
  SeqFilter(text, {text[i] : i \in {j \in 1..Len(text) : LowerTok(text[j]) \notin PROFANITY_WORDS}})

detect_profanity_shift(text) ==
  LET low == Lower(text)
      clean_text == RemoveProfanity(text)
      delta == BaseScore(clean_text) - BaseScore(text)
  IN  IF ~ \E w \in PROFANITY_WORDS : In(w, low) THEN 0
      ELSE IF Strip(clean_text) = <<>> THEN 0
      ELSE IF delta > 15 THEN -15
      ELSE IF delta < -10 THEN 10
      ELSE 0

\* deque(maxlen=n).append
DequeAppend(q, x, n) == LastN(Append(q, x), n)

\* a variant of BelowTwoSigma that asks for one standard deviation
BelowOneSigma(d, n, Q) == d > 0 /\ d * d * (n - 1) > Q

\* a variant of BelowTwoSigma that asks for three standard deviations
BelowThreeSigma(d, n, Q) == d > 0 /\ d * d * (n - 1) > 9 * Q

\* `z_score < -2.0` of detect_statistical_anomaly, with d, n and Q as below
BelowTwoSigma(d, n, Q) == d > 0 /\ d * d * (n - 1) > 4 * Q

\* a variant of StdevBelowHundredth that lets no window pass
NeverFlat(n, Q) == FALSE

\* `stdev < 0.01` of detect_statistical_anomaly, with n and Q as below and
\* scores in hundredths
StdevBelowHundredth(n, Q) == Q < n * n * (n - 1)

\* detect_statistical_anomaly(score) on window w: the new window, the flag
\* and the damping.  With n scores of sum S, d = S - n*score and
\* Q = sum (n*x - S)^2:  stdev^2 = Q / (n^2 (n-1)),  z = -d / (n stdev),
\* so z < -2 iff d > 0 and d^2 (n-1) > 4 Q, and z^2 = d^2 (n-1) / Q.
detect_statistical_anomaly(w, score) ==
  LET w2 == DequeAppend(w, score, WindowLen)
      n == Len(w2)
      S == SumSeq(w2)
      Q == SumSeq([i \in 1..n |-> (n * w2[i] - S) * (n * w2[i] - S)])
      d == S - n * score
      \* stdev < 0.01, one hundredth: Q / (n^2 (n-1)) < 1
      flat == StdevBelowHundredth(n, Q)
      anomaly == BelowTwoSigma(d, n, Q)
      \* abs(z_score) * 0.05
      damping == ISqrt((25 * d * d * (n - 1)) \div Q, ScoreUnit)
  IN  IF n < 3 THEN [window |-> w2, is_anomaly |-> FALSE, adj |-> 0]
      ELSE IF flat THEN [window |-> w2, is_anomaly |-> FALSE, adj |-> 0]
      ELSE IF anomaly THEN [window |-> w2, is_anomaly |-> TRUE, adj |-> damping]
      ELSE [window |-> w2, is_anomaly |-> FALSE, adj |-> 0]

FileNames == {"circadian", "mood_history", "alert_status", "keystrokes"}

\* open(name) raises
Down(name) == name \in io_down

Hours == 0..23

\* load_circadian_profile() when no profile file exists
DefaultProfile == [h \in Hours |-> 0]

\* what circadian_baseline.json holds when it is not a JSON document: the
\* file open(.., 'w') has emptied and json.dump has not filled, or the bytes
\* of two writers
NotJson == <<>>

\* load_circadian_profile() of a file holding profile; a file that cannot
\* be read or parsed gives the default
load_circadian_profile(profile) ==
  IF Down("circadian") \/ profile = NotJson THEN DefaultProfile ELSE profile

\* a variant of Ema with the weights 0.01 and 0.99
EmaSlow(old, score) == score + RoundDiv(99 * old, 100)

\* new = 0.1 * score + 0.9 * old
Ema(old, score) == 10 * score + RoundDiv(9 * old, 10)

\* a variant of update_circadian_profile that writes the key of the current
\* hour only
update_circadian_profileOneKey(profile, h, score) ==
  IF Down("circadian") THEN profile
  ELSE [k \in {h} |-> Ema(load_circadian_profile(profile)[k], score)]

\* update_circadian_profile(hour, score); a failed write leaves the file
update_circadian_profile(profile, h, score) ==
  IF Down("circadian") THEN profile
  ELSE [load_circadian_profile(profile) EXCEPT ![h] = Ema(@, score)]

\* a variant of normalize_by_time that updates the baseline with the
\* normalized score
normalize_by_timeNormalized(profile, h, score) ==
  LET baseline == load_circadian_profile(profile)[h]
      score4 == (BaselineUnit \div ScoreUnit) * score
      deviation == score4 - baseline
      normalized == score4 - RoundDiv(deviation, 5)
  IN  [normalized |-> RoundDiv(normalized, BaselineUnit \div ScoreUnit),
       baseline |-> baseline,
       profile |-> update_circadian_profile(profile, h,
                     RoundDiv(normalized, BaselineUnit \div ScoreUnit))]

\* normalize_by_time(score)
normalize_by_time(profile, h, score) ==
  LET baseline == load_circadian_profile(profile)[h]
      score4 == (BaselineUnit \div ScoreUnit) * score
      deviation == score4 - baseline
      normalized == score4 - RoundDiv(deviation, 5)
  IN  [normalized |-> RoundDiv(normalized, BaselineUnit \div ScoreUnit),
       baseline |-> baseline,
       profile |-> update_circadian_profile(profile, h, score)]

-----------------------------------------------------------------------------
(* Phase 2: linguistic intelligence *)

\* detect_sarcasm_markers(text); the parser has already accepted the text
detect_sarcasm_markers(text) ==
  LET markers == -15 * CountIn(SARCASM_MARKERS, Lower(text))
      doc == nlp(text)
  IN  IF ~SPACY_ENABLED THEN markers
      ELSE IF doc.positive_adj >= 3 /\ doc.negative_verb THEN markers - 20
      ELSE markers

\* check_crisis_keywords(text)
check_crisis_keywords(text) ==
  LET found == {k \in CRISIS_KEYWORDS : In(k, Lower(text))}
  IN  [is_crisis |-> found # {}, words |-> found]

\* detect_venting_pattern(text)
detect_venting_pattern(text) ==
  LET low == Lower(text)
      venting_count == CountIn(VENTING_INDICATORS, low)
      profanity_count == CountIn(PROFANITY_WORDS, low)
  IN  IF venting_count = 0 THEN [is_venting |-> FALSE, adj |-> 0]
      ELSE IF ~SPACY_ENABLED
           THEN IF profanity_count >= 2 /\ venting_count >= 1
                THEN [is_venting |-> TRUE, adj |-> 10]
                ELSE [is_venting |-> FALSE, adj |-> 0]
      ELSE IF nlp(text).sents <= 2 /\ venting_count >= 1
           THEN [is_venting |-> TRUE, adj |-> 15]
      ELSE [is_venting |-> FALSE, adj |-> 0]

-----------------------------------------------------------------------------
(* Phase 3: semantic understanding *)

SetMax(S) == CHOOSE x \in S : \A y \in S : y <= x

\* detect_gaming_context(text)
detect_gaming_context(text) ==
  LET matches == CountIn(GAMING_VOCABULARY, Lower(text))
      max_similarity ==
        SetMax({0} \cup {cos_sim(encode(text), encode(<<g>>)) : g \in GAMING_VOCABULARY})
  IN  IF ~EMBEDDINGS_ENABLED
      THEN IF matches >= 2 THEN 20 ELSE 0
      ELSE IF max_similarity > 650 THEN 20
      ELSE IF max_similarity > 500 THEN 10
      ELSE 0

\* the loop of detect_modern_idioms over the idioms' similarities: the first
\* idiom that reaches the best similarity, if that is above 0.7
BestIdiom(sims) ==
  LET n == Len(sims)
      best_similarity == SetMax({0} \cup {sims[k] : k \in 1..n})
      best == CHOOSE k \in 1..n :
                sims[k] = best_similarity /\ \A j \in 1..(k - 1) : sims[j] < best_similarity
  IN  IF best_similarity > 700
      THEN [idiom |-> IdiomOrder[best], adj |-> MODERN_IDIOMS[IdiomOrder[best]]]
      ELSE [idiom |-> "", adj |-> 0]

\* the keyword fallback of detect_modern_idioms: the first idiom, in the
\* dict's order, that occurs in the text
FirstIdiom(hits) ==
  IF hits = {} THEN [idiom |-> "", adj |-> 0]
  ELSE LET first == CHOOSE k \in hits : \A j \in hits : k <= j
       IN  [idiom |-> IdiomOrder[first], adj |-> MODERN_IDIOMS[IdiomOrder[first]]]

\* detect_modern_idioms(text): the matched idiom ("" for None) and its weight
detect_modern_idioms(text) ==
  IF ~EMBEDDINGS_ENABLED
  THEN FirstIdiom({k \in 1..Len(IdiomOrder) : In(IdiomOrder[k], Lower(text))})
  ELSE BestIdiom([k \in 1..Len(IdiomOrder) |->
                    cos_sim(encode(text), encode(<<IdiomOrder[k]>>))])

\* analyze_with_context_window(text) on context window c
analyze_with_context_window(c, text) ==
  LET c2 == DequeAppend(c, text, ContextLen)
      prev == SubSeq(c2, 1, Len(c2) - 1)
      similarities == [i \in 1..Len(prev) |-> cos_sim(encode(text), encode(prev[i]))]
  IN  [context |-> c2,
       adj |-> IF Len(c2) < 2 THEN 0
               ELSE IF ~EMBEDDINGS_ENABLED THEN 0
               \* statistics.mean(similarities) > 0.85
               ELSE IF SumSeq(similarities) * 100 > 85000 * Len(prev) THEN -10
               ELSE 0]

-----------------------------------------------------------------------------
(* The score compositor and its cache *)

\* The engine's mutable state as one value, so that a scan can thread it
\* through the analysis of each line.
Engine ==
  [cache |-> sentiment_cache, window |-> sentiment_history,
   context |-> message_context_window, profile |-> circadian,
   clog |-> concerning_log]

\* cache_key = text.strip().lower()[:100]
CacheKey(text) == FirstN(Lower(Strip(text)), KeyLen)

CacheHas(cache, key) == \E i \in 1..Len(cache) : cache[i].key = key

\* a variant of CacheGet that answers with the oldest entry of the cache
CacheGetFirst(cache, key) == cache[1].score

\* _sentiment_cache[cache_key]
CacheGet(cache, key) == cache[CHOOSE i \in 1..Len(cache) : cache[i].key = key].score

\* a variant of CachePut that keeps the oldest 80 entries of a full cache
CachePutOldest(cache, key, score) ==
  IF Len(cache) < cache_max_size
  THEN Append(cache, [key |-> key, score |-> score])
  ELSE Append(FirstN(cache, cache_keep), [key |-> key, score |-> score])

\* the caching at the end of analyze_sentiment
CachePut(cache, key, score) ==
  IF Len(cache) < cache_max_size
  THEN Append(cache, [key |-> key, score |-> score])
  ELSE Append(LastN(cache, cache_keep), [key |-> key, score |-> score])

\* log_concerning_analysis(text, analysis_result), written at hour h
log_concerning_analysis(clog, text, detailed, h) ==
  LastN(Append(clog,
      [timestamp |-> h,
       text_sample |-> IF Len(text) > 100 THEN Append(FirstN(text, 100), "...") ELSE text,
       original_score |-> detailed.original_vader,
       adjusted_score |-> detailed.adjusted_compound,
       is_sarcastic |-> detailed.is_sarcastic,
       mental_health_concern |-> detailed.mental_health_concern]),
    ConcerningKeep)

\* a variant of ClampFinal that leaves the score as the phases made it
NoClamp(x) == x

\* the boundary clamping of analyze_sentiment
ClampFinal(x) == Max(-ScoreUnit, Min(ScoreUnit, x))

\* phase2_score of analyze_sentiment
Phase2Score(phase1_score, sarcasm_adj, venting, crisis) ==
  LET s1 == phase1_score + sarcasm_adj
      s2 == IF venting.is_venting THEN s1 + venting.adj ELSE s1
  IN  IF crisis.is_crisis THEN Min(s2, CrisisCap) ELSE s2

\* final_score of analyze_sentiment, before the clamping
Phase3Score(phase2_score, gaming_adj, idiom_adj, context_adj) ==
  phase2_score + gaming_adj + idiom_adj + context_adj

\* a variant of OnException that caches the neutral score of the failed call
OnExceptionCached(e, text) ==
  [engine |-> [e EXCEPT !.cache = CachePut(e.cache, CacheKey(text), 0)],
   score |-> 0, raised |-> TRUE, hit |-> FALSE, models |-> 1]

\* `except Exception: return 0.0` of analyze_sentiment, the engine being e
\* when the exception is caught
OnException(e, text) ==
  [engine |-> e, score |-> 0, raised |-> TRUE, hit |-> FALSE, models |-> 1]

\* The values the try block of analyze_sentiment computes for a text on
\* engine state e at hour h, in the order of the statements
Parts(e, text, h) ==
  LET base_score == BaseScore(text)
      detailed == analyze_context(text)
      blended_score == RoundDiv(70 * base_score + 30 * detailed.adjusted_compound, 100)
      profanity_adj == detect_profanity_shift(text)
      anomaly == detect_statistical_anomaly(e.window, blended_score)
      circ == normalize_by_time(e.profile, h, blended_score)
      phase1_score == circ.normalized + profanity_adj
                        - (IF anomaly.is_anomaly THEN anomaly.adj ELSE 0)
      sarcasm_adj == detect_sarcasm_markers(text)
      crisis == check_crisis_keywords(text)
      venting == detect_venting_pattern(text)
      phase2_score == Phase2Score(phase1_score, sarcasm_adj, venting, crisis)
      gaming_adj == detect_gaming_context(text)
      idiom == detect_modern_idioms(text)
      ctx == analyze_with_context_window(e.context, text)
  IN  [detailed |-> detailed, blended_score |-> blended_score,
       profanity_adj |-> profanity_adj, anomaly |-> anomaly, circ |-> circ,
       phase1_score |-> phase1_score, sarcasm_adj |-> sarcasm_adj,
       crisis |-> crisis, venting |-> venting, phase2_score |-> phase2_score,
       gaming_adj |-> gaming_adj, idiom |-> idiom, ctx |-> ctx,
       final_score |-> ClampFinal(Phase3Score(phase2_score, gaming_adj,
                                              idiom.adj, ctx.adj))]

\* what the try block leaves once it has computed p: the engine state, the
\* score, whether an exception was caught and the number of calls of the
\* classifier made for the text itself
Composed(e, text, h, p) ==
  IF ClassifierRaises(text)
  THEN OnException(e, text)
  ELSE IF SPACY_ENABLED /\ ParserRaises(text)
  THEN OnException([e EXCEPT !.window = p.anomaly.window, !.profile = p.circ.profile],
                   text)
  ELSE [engine |->
          [cache |-> CachePut(e.cache, CacheKey(text), p.final_score),
           window |-> p.anomaly.window,
           context |-> p.ctx.context,
           profile |-> p.circ.profile,
           clog |-> IF p.detailed.needs_attention \/ p.crisis.is_crisis
                    THEN log_concerning_analysis(e.clog, text, p.detailed, h)
                    ELSE e.clog],
        score |-> p.final_score, raised |-> FALSE, hit |-> FALSE, models |-> 1]

\* The body of the try block of analyze_sentiment on engine state e at hour h
AnalyzeMiss(e, text, h) == Composed(e, text, h, Parts(e, text, h))

\* a variant of IsBlank that takes only the empty string for blank
IsBlankEmpty(text) == text = <<>>

\* `not text or not text.strip()`
IsBlank(text) == text = <<>> \/ Strip(text) = <<>>

\* a variant of OnCacheHit that moves the entry read behind the others, as a
\* least-recently-used cache would
OnCacheHitMoved(e, key) ==
  [e EXCEPT !.cache =
     Append(SelectSeq(e.cache, LAMBDA c : c.key # key),
            [key |-> key, score |-> CacheGet(e.cache, key)])]

\* the engine state after `return _sentiment_cache[cache_key]`: the return
\* comes before anything is appended or written
OnCacheHit(e, key) == e

\* analyze_sentiment(text)
analyze_sentiment(e, text, h) ==
  IF IsBlank(text)
  THEN [engine |-> e, score |-> 0, raised |-> FALSE, hit |-> FALSE, models |-> 0]
  ELSE IF CacheHas(e.cache, CacheKey(text))
  THEN [engine |-> OnCacheHit(e, CacheKey(text)),
        score |-> CacheGet(e.cache, CacheKey(text)),
        raised |-> FALSE, hit |-> TRUE, models |-> 0]
  ELSE AnalyzeMiss(e, text, h)

-----------------------------------------------------------------------------
(* Files.  A file is [exists, data]; the relative names of analyzer.py,    *)
(* gui.py and main.py resolve in the working directory.                    *)

Dirs == {"user", "orig"}

\* malformed: the file does not hold JSON, so that json.load raises; whoever
\* writes the file anew puts JSON into it
File(data) == [exists |-> TRUE, data |-> data, malformed |-> FALSE]
NoFile(data) == [exists |-> FALSE, data |-> data, malformed |-> FALSE]

Log == keystrokes[cwd]

\* os.path.getsize(KEYSTROKE_FILE): each line holds its tokens and a newline
FileSize(lines) == SumSeq([i \in 1..Len(lines) |-> Len(lines[i]) + 1])

\* get_alert_status().get("last_alert_line", 0)
get_alert_status == IF alert_status[cwd].exists THEN alert_status[cwd].data ELSE 0

\* get_alert_status() raises: open or json.load of an existing file fails
AlertStatusRaises ==
  alert_status[cwd].exists /\ (Down("alert_status") \/ alert_status[cwd].malformed)

\* a variant of set_alert_status that stores the offset of the last line
\* within the lines just scanned
set_alert_status_relative(line_num) ==
  [alert_status EXCEPT ![cwd] = File(line_num - get_alert_status - 1)]

\* a variant of set_alert_status that stores the line after the last one
set_alert_status_ahead(line_num) == [alert_status EXCEPT ![cwd] = File(line_num + 1)]

\* set_alert_status(line_num)
set_alert_status(line_num) == [alert_status EXCEPT ![cwd] = File(line_num)]

\* a variant of reset_alert_status that leaves the file as it is
reset_alert_status_skipped(status, dir) == status

\* reset_alert_status()
reset_alert_status(status, dir) ==
  IF status[dir].exists THEN [status EXCEPT ![dir] = File(0)] ELSE status

-----------------------------------------------------------------------------
(* History variables: the score each text last got from analyze_sentiment  *)
(* and the texts whose cache key has stayed cached since that call.        *)

NoScore == 10 * ScoreUnit

NoteCall(o, text, r) ==
  [o EXCEPT !.last_score = [@ EXCEPT ![text] = r.score],
            !.in_window = IF r.hit THEN @ \cup {text}
                          ELSE {t \in @ \cup {text} :
                                  CacheHas(r.engine.cache, CacheKey(t))}]

-----------------------------------------------------------------------------
(* Scans of the keystroke log *)

\* one pass of the loop of count_below_threshold, for the non-blank line of
\* index i, scored r
CountStep(acc, i, line, r, threshold) ==
  [engine |-> r.engine,
   count |-> IF r.score < threshold THEN acc.count + 1 ELSE acc.count,
   neg_lines |-> IF r.score < threshold THEN Append(acc.neg_lines, line) ELSE acc.neg_lines,
   trace |-> Append(acc.trace, [line |-> i, text |-> line, score |-> r.score,
                                hit |-> r.hit, raised |-> r.raised]),
   seen |-> NoteCall(acc.seen, line, r)]

\* the loop of count_below_threshold over lines[i..]: every non-blank line,
\* stripped, goes to analyze_sentiment
RECURSIVE CountLoop(_, _, _, _, _)
CountLoop(acc, lines, i, h, threshold) ==
  IF i > Len(lines) THEN acc
  ELSE IF Strip(lines[i]) = <<>> THEN CountLoop(acc, lines, i + 1, h, threshold)
  ELSE CountLoop(CountStep(acc, i, Strip(lines[i]),
                           analyze_sentiment(acc.engine, Strip(lines[i]), h), threshold),
                 lines, i + 1, h, threshold)

\* a variant of ScanStart that reads the line of the pointer again
ScanStartInclusive(start) == Max(1, start)

\* the index of the first line the loop of count_below_threshold reads
ScanStart(start) == start + 1

\* `score < THRESHOLD` of count_below_threshold
ScanThreshold == THRESHOLD

\* what count_below_threshold(return_lines=True) returns after its loop
CountResult(r, total) ==
  [engine |-> r.engine, count |-> r.count, total |-> total,
   neg_lines |-> r.neg_lines, trace |-> r.trace, seen |-> r.seen,
   raised |-> FALSE]

\* count_below_threshold has read nothing: there is no log, or it raised
CountNothing(raised) ==
  [engine |-> Engine, count |-> 0, total |-> 0, neg_lines |-> <<>>,
   trace |-> <<>>, seen |-> obs, raised |-> raised]

\* open(KEYSTROKE_FILE) or get_alert_status() raises in count_below_threshold,
\* which catches nothing
CountRaises == Down("keystrokes") \/ AlertStatusRaises

\* count_below_threshold(return_lines=True) in the current state
count_below_threshold ==
  IF ~Log.exists THEN CountNothing(FALSE)
  ELSE IF CountRaises THEN CountNothing(TRUE)
  ELSE CountResult(
         CountLoop([engine |-> Engine, count |-> 0, neg_lines |-> <<>>, trace |-> <<>>,
                    seen |-> obs],
                   Log.data, ScanStart(get_alert_status), hour, ScanThreshold),
         Len(Log.data))

\* the try block of flush_mood_buffer raises: the history file cannot be
\* opened, or json.load of it fails
FlushRaises(f) == Down("mood_history") \/ (f.exists /\ f.malformed)

\* a variant of the except clause of flush_mood_buffer that gives the
\* buffered entries up
OnFlushErrorDropping(b, f) == [buffer |-> <<>>, file |-> f, flush |-> "failed"]

\* the except clause of flush_mood_buffer: a warning, the buffer is kept
OnFlushError(b, f) == [buffer |-> b, file |-> f, flush |-> "failed"]

\* a variant of TrimHistory that keeps the oldest entries
TrimHistoryOldest(history) == FirstN(history, MoodHistoryKeep)

\* `if len(history) > 500: history = history[-500:]` of flush_mood_buffer
TrimHistory(history) == LastN(history, MoodHistoryKeep)

\* flush_mood_buffer() on buffer b and history file f
flush_mood_buffer(b, f) ==
  IF b = <<>> THEN [buffer |-> b, file |-> f, flush |-> "none"]
  ELSE IF FlushRaises(f) THEN OnFlushError(b, f)
  ELSE [buffer |-> <<>>,
        file |-> File(TrimHistory((IF f.exists THEN f.data ELSE <<>>) \o b)),
        flush |-> "ok"]

\* a variant of FlushDue that waits for one entry more
FlushDueLate(b) == Len(b) > mood_buffer_size

\* `if len(_mood_buffer) >= _mood_buffer_size` of save_mood_to_history
FlushDue(b) == Len(b) >= mood_buffer_size

\* save_mood_to_history(score) at hour h
save_mood_to_history(b, f, score, h) ==
  LET b2 == Append(b, [timestamp |-> h, score |-> score])
  IN  IF FlushDue(b2) THEN flush_mood_buffer(b2, f)
      ELSE [buffer |-> b2, file |-> f, flush |-> "none"]

\* one pass of the loop of get_day_analysis, for the non-blank line of index
\* i, scored r, with m the outcome of save_mood_to_history(score)
DayStep(acc, i, line, r, m, h) ==
  [engine |-> r.engine,
   result |-> Append(acc.result, [timestamp |-> h, score |-> r.score]),
   buffer |-> m.buffer, file |-> m.file,
   saves |-> acc.saves + 1,
   trace |-> Append(acc.trace, [line |-> i, text |-> line, score |-> r.score,
                                hit |-> r.hit, raised |-> r.raised]),
   seen |-> [NoteCall(acc.seen, line, r) EXCEPT
               !.saved = Append(@, [timestamp |-> h, score |-> r.score])]]

DayScored(acc, i, line, r, h) ==
  DayStep(acc, i, line, r, save_mood_to_history(acc.buffer, acc.file, r.score, h), h)

\* the loops of get_day_analysis over lines[i..]
RECURSIVE DayLoop(_, _, _, _)
DayLoop(acc, lines, i, h) ==
  IF i > Len(lines) THEN acc
  ELSE IF Strip(lines[i]) = <<>> THEN DayLoop(acc, lines, i + 1, h)
  ELSE DayLoop(DayScored(acc, i, Strip(lines[i]),
                         analyze_sentiment(acc.engine, Strip(lines[i]), h), h),
               lines, i + 1, h)

\* new_lines = lines[len(_analysis_cache):]: the index of its first line
ResumeIndex(cache) == Len(cache) + 1

-----------------------------------------------------------------------------
(* Bounds and inputs *)

MaxCalls == 3          \* direct calls of analyze_sentiment in SpecAnalyze
MaxFresh == 102        \* different texts analysed in SpecCache
MaxRepeats == 1        \* texts analysed a second time in SpecCache
MaxProfileCalls == 4   \* calls of normalize_by_time in SpecProfile
MaxWindowCalls == 11   \* calls of detect_statistical_anomaly in SpecWindow
MaxGuardianLines == 12 \* lines of the keystroke log in SpecGuardian
GuardianStartLines == 5 \* negative lines a session of SpecGuardian starts with
MaxResets == 1         \* calls of reset_analysis_cache
MaxCloseLines == 3     \* lines of the keystroke log in SpecClose
MaxRaceLines == 10      \* lines of the keystroke log in SpecRace
MaxSessions == 2       \* runs of the program in SpecSessions
MaxSessionLines == 6   \* lines of the keystroke log in SpecSessions
MaxResetLines == 3     \* lines of the keystroke log in SpecReset
MaxTicks == 1          \* changes of the hour
MaxLines == 12         \* lines of the keystroke log in Spec
StartLines == 6        \* negative lines a session of Spec may start with
MaxHistoryLines == 4   \* lines of the keystroke log in SpecHistory
MaxFailLines == 3      \* lines of the keystroke log in SpecFail
MaxPrivacyLines == 7   \* lines of the keystroke log in SpecPrivacy
MaxSaves == 12         \* direct calls of save_mood_to_history
MaxRecords == 10       \* direct calls of detect_statistical_anomaly
MaxNormalize == 52     \* direct calls of normalize_by_time
MaxSwitches == 1       \* changes of the score given to normalize_by_time
MaxShrinkLines == 2    \* lines of the keystroke log in SpecShrink
MaxTruncations == 1    \* truncations of the keystroke log
StartMoods == 495      \* entries of the mood history when SpecMood starts

StartHour == 23

Sad == <<"sad">>
Happy == <<"happy">>
EmptyLine == <<>>

\* the lines the capture source writes
LogTexts == {Sad, Happy, EmptyLine}

\* a line on which the classifier raises
BadLine == <<"<bad-encoding>", "sad">>

\* the lines of the log of SpecFail
FailTexts == LogTexts \cup {BadLine}

\* the texts handed to analyze_sentiment directly
AnalyzeTexts ==
  { <<>>,
    <<Blank, Blank>>,
    <<Blank, "I", "WANT TO DIE">>,
    <<"i", "hate myself">>,
    <<"slaps", "want to die">>,
    <<"happy", "slaps", "gg", "ez">>,
    <<"ugh", "fuck", "shit", "fml", "want to die">>,
    <<"<bad-encoding>", "sad">>,
    <<"awful", "<bad-parse>">> }

Repeat(x, n) == [i \in 1..n |-> x]

\* the n-th of a run of utterances no two of which have the same cache key
CacheWords ==
  <<"fine", "happy", "sad", "the", "day", "was", "today", "work", "is", "a", "awful">>

CacheText(n) ==
  <<CacheWords[(n \div Len(CacheWords)) + 1], CacheWords[(n % Len(CacheWords)) + 1]>>

\* the texts analysed a second time: one the first eviction drops and one
\* it keeps
RepeatIndexes == {1, 30}

\* utterances longer than the 100 characters log_concerning_analysis keeps
LongSad == Repeat("sad", 101)
LongCrisis == Repeat("sad", 100) \o <<"want to die">>

\* the lines of the log of SpecPrivacy
PrivacyTexts == {LongSad, LongCrisis, Happy}

\* utterances of 101 characters that differ in the last one only
LongHappy == Repeat("happy", 101)
LongHappyCrisis == Repeat("happy", 100) \o <<"want to die">>

KeyTexts == {LongSad, LongCrisis, LongHappy, LongHappyCrisis}

AllTexts ==
  AnalyzeTexts \cup LogTexts \cup PrivacyTexts \cup KeyTexts
    \cup {Strip(t) : t \in AnalyzeTexts \cup LogTexts}

\* no alert check stands between its read and its commit
NoCheck == [at |-> "idle", count |-> 0, total |-> 0, neg_lines |-> <<>>]

RetBase(op) ==
  [op |-> op, text |-> <<>>, score |-> 0, hit |-> FALSE, raised |-> FALSE,
   models |-> 0, start |-> 0, count |-> 0, total |-> 0, neg_lines |-> <<>>,
   trace |-> <<>>, triggered |-> FALSE, result |-> <<>>, saves |-> 0,
   before |-> <<>>, grew |-> 0, flush |-> "none", is_anomaly |-> FALSE,
   baseline |-> 0, state |-> "none"]

\* fresh: the texts of CacheText analysed so far, repeats: the calls that
\* analysed one of them again, inserted: the keys analyze_sentiment put into
\* the result cache on those calls, in the order of the calls;
\* saved: the entries of the mood history file at the start, then every
\* entry given to save_mood_to_history, in the order of the calls;
\* streak: the direct calls of normalize_by_time with the same score in a
\* row, switches: the times that score changed
ObsInit(maxLines, moods) ==
  [calls |-> 0, ticks |-> 0, max_lines |-> maxLines,
   last_score |-> [t \in AllTexts |-> NoScore], in_window |-> {},
   fresh_trigger |-> FALSE, scanned |-> 0, saved |-> moods,
   streak |-> 0, switches |-> 0, truncations |-> 0,
   fresh |-> 0, repeats |-> 0, inserted |-> <<>>, resets |-> 0,
   sessions |-> 1, overtaken |-> FALSE]

\* The state when a session starts: initialize_user_data has put empty
\* files into the user's directory and made it the working directory; the
\* keystroke log may already hold lines.
InitFrom(logs, maxLines, caps, moods) ==
  /\ \E c \in caps : SPACY_ENABLED = c[1] /\ EMBEDDINGS_ENABLED = c[2]
  /\ hour = StartHour % 24
  /\ sentiment_cache = <<>>
  /\ sentiment_history = <<>>
  /\ message_context_window = <<>>
  /\ circadian = DefaultProfile
  /\ concerning_log = <<>>
  /\ cwd = "user"
  /\ \E l \in logs : keystrokes = [d \in Dirs |-> IF d = "user" THEN File(l) ELSE NoFile(<<>>)]
  /\ alert_status = [d \in Dirs |-> IF d = "user" THEN File(0) ELSE NoFile(0)]
  /\ alerts_log = [d \in Dirs |-> IF d = "user" THEN File(<<>>) ELSE NoFile(<<>>)]
  /\ mood_history = [d \in Dirs |-> IF d = "user" THEN File(moods) ELSE NoFile(<<>>)]
  /\ analysis_cache = <<>>
  /\ last_file_size = 0
  /\ mood_buffer = <<>>
  /\ guardian_email \in BOOLEAN
  /\ sent = <<>>
  /\ session = "running"
  /\ io_down = {}
  /\ popup = "none"
  /\ checking = NoCheck
  /\ ret = RetBase("start")
  /\ obs = ObsInit(maxLines, moods)

\* a session that starts with an empty mood history
InitWith(logs, maxLines, caps) == InitFrom(logs, maxLines, caps, <<>>)

engineVars == <<sentiment_cache, sentiment_history, message_context_window,
                circadian, concerning_log>>
capVars == <<SPACY_ENABLED, EMBEDDINGS_ENABLED>>
fileVars == <<keystrokes, alert_status, alerts_log, mood_history>>
historyVars == <<analysis_cache, last_file_size, mood_buffer>>

SetEngine(e) ==
  /\ sentiment_cache' = e.cache
  /\ sentiment_history' = e.window
  /\ message_context_window' = e.context
  /\ circadian' = e.profile
  /\ concerning_log' = e.clog

-----------------------------------------------------------------------------
(* Operations *)

\* the clock reaches the next hour
Tick ==
  /\ session = "running"
  /\ obs.ticks < MaxTicks
  /\ hour' = (hour + 1) % 24
  /\ ret' = RetBase("tick")
  /\ obs' = [obs EXCEPT !.ticks = @ + 1]
  /\ UNCHANGED <<capVars, popup, checking, io_down, engineVars, cwd, fileVars, historyVars, guardian_email,
                 sent, session>>

\* the effect of a direct call whose outcome is r
Analyzed(text, r) ==
  /\ SetEngine(r.engine)
  /\ ret' = [RetBase("analyze_sentiment") EXCEPT
               !.text = text, !.score = r.score, !.hit = r.hit,
               !.raised = r.raised, !.models = r.models]
  /\ obs' = [NoteCall(obs, text, r) EXCEPT !.calls = @ + 1]

\* analyze_sentiment(text), called directly
AnalyzeSentiment(text) ==
  /\ session = "running"
  /\ obs.calls < MaxCalls
  /\ Analyzed(text, analyze_sentiment(Engine, text, hour))
  /\ UNCHANGED <<capVars, popup, checking, io_down, hour, cwd, fileVars, historyVars, guardian_email, sent,
                 session>>

\* analyze_sentiment(CacheText(n)), called directly: the next text never
\* analysed before, or one analysed before
AnalyzeNth(n) ==
  /\ session = "running"
  /\ \/ n = obs.fresh + 1 /\ obs.fresh < MaxFresh
     \/ n <= obs.fresh /\ obs.repeats < MaxRepeats
  /\ LET r == analyze_sentiment(Engine, CacheText(n), hour)
     IN  /\ SetEngine(r.engine)
         /\ ret' = [RetBase("analyze_sentiment") EXCEPT
                      !.text = CacheText(n), !.score = r.score, !.hit = r.hit,
                      !.raised = r.raised, !.models = r.models]
         /\ obs' = [obs EXCEPT
                      !.calls = @ + 1,
                      !.fresh = IF n > @ THEN n ELSE @,
                      !.repeats = IF n > obs.fresh THEN @ ELSE @ + 1,
                      !.inserted = IF r.hit \/ r.raised THEN @
                                   ELSE Append(@, CacheKey(CacheText(n)))]
  /\ UNCHANGED <<capVars, popup, checking, io_down, hour, cwd, fileVars, historyVars, guardian_email, sent,
                 session>>

\* the capture source appends one line to keystrokes.txt
AppendLine(text) ==
  /\ session = "running"
  /\ Len(Log.data) < obs.max_lines
  /\ keystrokes' = [keystrokes EXCEPT ![cwd] = File(Append(Log.data, text))]
  /\ ret' = RetBase("append")
  /\ obs' = [obs EXCEPT !.fresh_trigger = FALSE]
  /\ UNCHANGED <<capVars, popup, checking, io_down, hour, engineVars, cwd, alert_status, alerts_log,
                 mood_history, historyVars, guardian_email, sent, session>>

\* something outside the engine cuts keystrokes.txt down to its first n lines
TruncateLog(n) ==
  /\ session = "running"
  /\ Log.exists
  /\ n < Len(Log.data)
  /\ obs.truncations < MaxTruncations
  /\ keystrokes' = [keystrokes EXCEPT ![cwd] = File(FirstN(Log.data, n))]
  /\ ret' = RetBase("truncate")
  /\ obs' = [obs EXCEPT !.truncations = @ + 1, !.fresh_trigger = FALSE]
  /\ UNCHANGED <<capVars, popup, checking, io_down, hour, engineVars, cwd, alert_status, alerts_log,
                 mood_history, historyVars, guardian_email, sent, session>>

\* count_below_threshold(return_lines=True), as the guardian dashboard calls it
Counted(c) ==
  /\ SetEngine(c.engine)
  /\ ret' = [RetBase("count_below_threshold") EXCEPT
               !.start = get_alert_status, !.count = c.count,
               !.total = c.total, !.neg_lines = c.neg_lines, !.trace = c.trace,
               !.raised = c.raised]
  /\ obs' = c.seen

\* a variant of AlertStatusAfterCount that commits the line count read, as
\* the alert checks do
AlertStatusCommitted(c) == set_alert_status(c.total)

\* alert_status.json after count_below_threshold has returned c: the function
\* calls get_alert_status() and never set_alert_status
AlertStatusAfterCount(c) == alert_status

CountBelowThreshold ==
  /\ session = "running"
  /\ Counted(count_below_threshold)
  /\ alert_status' = AlertStatusAfterCount(count_below_threshold)
  /\ UNCHANGED <<capVars, popup, checking, io_down, hour, cwd, keystrokes, alerts_log,
                 mood_history, historyVars, guardian_email, sent, session>>

\* send_alert_email(guardian_email, count): the Notification Sender takes the
\* call; the caller does not read its outcome
send_alert_email(outbox, count) == Append(outbox, count)

\* a variant of OverLimit that fires at the limit already
OverLimitInclusive(count, limit) == count >= limit

\* `count > ALERT_LIMIT` of check_and_alert and check_and_add_guardian_alert
OverLimit(count, limit) == count > limit

\* the body of check_and_alert once count_below_threshold has returned c; its
\* try block catches what count_below_threshold raises, and nothing fires
AlertChecked(c, fire) ==
  /\ SetEngine(c.engine)
  /\ sent' = IF fire THEN send_alert_email(sent, c.count) ELSE sent
  /\ alert_status' = IF fire THEN set_alert_status(c.total) ELSE alert_status
  /\ ret' = [RetBase("check_and_alert") EXCEPT
               !.start = get_alert_status, !.count = c.count,
               !.total = c.total, !.neg_lines = c.neg_lines,
               !.trace = c.trace, !.triggered = fire]
  /\ obs' = [c.seen EXCEPT !.fresh_trigger = fire \/ @]

AlertCheck(c) == AlertChecked(c, OverLimit(c.count, ALERT_LIMIT))

\* check_and_alert()
CheckAndAlert ==
  /\ session = "running"
  /\ IF ~guardian_email
     THEN /\ ret' = RetBase("check_and_alert")
          /\ UNCHANGED <<engineVars, alert_status, sent, obs>>
     ELSE AlertCheck(count_below_threshold)
  /\ UNCHANGED <<capVars, popup, checking, io_down, hour, cwd, keystrokes, alerts_log, mood_history,
                 historyVars, guardian_email, session>>

\* a variant of InsertFront that puts the record behind the others
InsertBack(logs, alert_record) == Append(logs, alert_record)

\* logs.insert(0, alert_record)
InsertFront(logs, alert_record) == <<alert_record>> \o logs

\* an alert check up to the return of count_below_threshold, which has read
\* the log with readlines(); the capture source may append lines before the
\* check goes on.  check_and_alert returns before it when no guardian is set.
CheckReads(op) ==
  /\ session = "running"
  /\ checking = NoCheck
  /\ op = "check_and_alert" => guardian_email
  /\ Counted(count_below_threshold)
  /\ checking' = [at |-> op, count |-> count_below_threshold.count,
                   total |-> count_below_threshold.total,
                   neg_lines |-> count_below_threshold.neg_lines]
  /\ UNCHANGED <<capVars, popup, io_down, hour, cwd, fileVars, historyVars,
                 guardian_email, sent, session>>

\* a variant of CommitLine that takes the length of the log at the commit
CommitLineNow(c) == Len(Log.data)

\* the latest_line an alert check hands to set_alert_status: the len(lines)
\* count_below_threshold returned
CommitLine(c) == c.total

\* the rest of the alert check: the comparison with ALERT_LIMIT and, on a
\* trigger, the mail or the alert record, and set_alert_status(latest_line)
CheckCommits ==
  /\ session = "running"
  /\ checking # NoCheck
  /\ LET fire == OverLimit(checking.count, ALERT_LIMIT)
         alert_record == [date |-> hour, negative_count |-> checking.count,
                          status |-> "Sent", reason_lines |-> checking.neg_lines]
         logs == IF alerts_log[cwd].exists THEN alerts_log[cwd].data ELSE <<>>
     IN  /\ sent' = IF fire /\ checking.at = "check_and_alert"
                    THEN send_alert_email(sent, checking.count) ELSE sent
         /\ alerts_log' = IF fire /\ checking.at = "check_and_add_guardian_alert"
                          THEN [alerts_log EXCEPT ![cwd] = File(InsertFront(logs, alert_record))]
                          ELSE alerts_log
         /\ alert_status' = IF fire THEN set_alert_status(CommitLine(checking))
                            ELSE alert_status
         /\ ret' = [RetBase(checking.at) EXCEPT
                      !.start = get_alert_status, !.count = checking.count,
                      !.total = checking.total, !.neg_lines = checking.neg_lines,
                      !.triggered = fire]
         /\ obs' = [obs EXCEPT !.fresh_trigger = fire \/ @,
                               !.overtaken = IF fire THEN Len(Log.data) > checking.total
                                             ELSE @]
  /\ checking' = NoCheck
  /\ UNCHANGED <<capVars, popup, io_down, hour, engineVars, cwd, keystrokes, mood_history,
                 historyVars, guardian_email, session>>

\* the body of check_and_add_guardian_alert once count_below_threshold has
\* returned c; what count_below_threshold raises goes to its caller
GuardianAlertChecked(c, fire) ==
  LET alert_record == [date |-> hour, negative_count |-> c.count,
                       status |-> "Sent", reason_lines |-> c.neg_lines]
      logs == IF alerts_log[cwd].exists THEN alerts_log[cwd].data ELSE <<>>
  IN  /\ SetEngine(c.engine)
      /\ alerts_log' = IF fire
                       THEN [alerts_log EXCEPT ![cwd] = File(InsertFront(logs, alert_record))]
                       ELSE alerts_log
      /\ alert_status' = IF fire THEN set_alert_status(c.total) ELSE alert_status
      /\ ret' = [RetBase("check_and_add_guardian_alert") EXCEPT
                   !.start = get_alert_status, !.count = c.count,
                   !.total = c.total, !.neg_lines = c.neg_lines,
                   !.trace = c.trace, !.triggered = fire,
                   !.raised = c.raised]
      /\ obs' = [c.seen EXCEPT !.fresh_trigger = fire \/ @]

GuardianAlertCheck(c) == GuardianAlertChecked(c, OverLimit(c.count, ALERT_LIMIT))

CheckAndAddGuardianAlert ==
  /\ session = "running"
  /\ GuardianAlertCheck(count_below_threshold)
  /\ UNCHANGED <<capVars, popup, checking, io_down, hour, cwd, keystrokes, mood_history, historyVars,
                 guardian_email, sent, session>>

\* show_guardian() up to the creation of its window: the alert check; the
\* capture source may write the log before the state is read
ShowGuardian ==
  /\ session = "running"
  /\ popup = "none"
  /\ GuardianAlertCheck(count_below_threshold)
  /\ popup' = "checked"
  /\ UNCHANGED <<capVars, checking, io_down, hour, cwd, keystrokes, mood_history, historyVars,
                 guardian_email, sent, session>>

\* `if count > 10` of get_current_alert_state
Armed(count) == count > ArmedOver

\* get_current_alert_state() of show_guardian, with c what
\* count_below_threshold returned
AlertStateRead(c) ==
  /\ SetEngine(c.engine)
  /\ ret' = [RetBase("get_current_alert_state") EXCEPT
               !.start = get_alert_status, !.count = c.count, !.total = c.total,
               !.neg_lines = c.neg_lines, !.trace = c.trace,
               !.state = IF Armed(c.count) THEN "Armed" ELSE "Waiting"]
  /\ obs' = c.seen

\* the rest of show_guardian: the state label of the dashboard
GetCurrentAlertState ==
  /\ session = "running"
  /\ popup = "checked"
  /\ AlertStateRead(count_below_threshold)
  /\ popup' = "none"
  /\ UNCHANGED <<capVars, checking, io_down, hour, cwd, fileVars, historyVars,
                 guardian_email, sent, session>>

\* a variant of CacheIsFresh that never holds
CacheIsStale(current_size) == FALSE

\* `current_size == _last_file_size and _analysis_cache` of get_day_analysis
CacheIsFresh(current_size) ==
  current_size = last_file_size /\ analysis_cache # <<>>

\* a variant of Incremental that takes any change of size for growth
IncrementalOnChange(current_size) ==
  analysis_cache # <<>> /\ current_size # last_file_size

\* `_analysis_cache and current_size > _last_file_size` of get_day_analysis
Incremental(current_size) ==
  analysis_cache # <<>> /\ current_size > last_file_size

\* the scan of get_day_analysis: from the line after the cached ones when
\* the cache is not empty and the file has grown, from the first line otherwise
DayScan(lines, current_size) ==
  LET incremental == Incremental(current_size)
  IN  DayLoop([engine |-> Engine,
               result |-> IF incremental THEN analysis_cache ELSE <<>>,
               buffer |-> mood_buffer, file |-> mood_history[cwd],
               saves |-> 0, trace |-> <<>>, seen |-> obs],
              lines, IF incremental THEN ResumeIndex(analysis_cache) ELSE 1, hour)

\* get_day_analysis() on a log of the given lines and size; r is its scan.
\* When the log cannot be opened the except clause returns the cache.
DayAnalysed(current_size, r) ==
  IF ~Log.exists
  THEN /\ ret' = RetBase("get_day_analysis")
       /\ UNCHANGED <<engineVars, mood_history, historyVars, obs>>
  ELSE IF CacheIsFresh(current_size) \/ Down("keystrokes")
  THEN /\ ret' = [RetBase("get_day_analysis") EXCEPT
                    !.result = analysis_cache, !.before = analysis_cache]
       /\ UNCHANGED <<engineVars, mood_history, historyVars, obs>>
  ELSE /\ SetEngine(r.engine)
       /\ analysis_cache' = r.result
       /\ last_file_size' = current_size
       /\ mood_buffer' = r.buffer
       /\ mood_history' = [mood_history EXCEPT ![cwd] = r.file]
       /\ ret' = [RetBase("get_day_analysis") EXCEPT
                    !.result = r.result, !.saves = r.saves, !.trace = r.trace,
                    !.before = analysis_cache,
                    !.start = obs.scanned, !.total = Len(Log.data),
                    !.grew = IF Incremental(current_size) THEN 1 ELSE 0]
       /\ obs' = [r.seen EXCEPT !.scanned = Len(Log.data)]

\* get_day_analysis()
GetDayAnalysis ==
  /\ session = "running"
  /\ DayAnalysed(FileSize(Log.data), DayScan(Log.data, FileSize(Log.data)))
  /\ UNCHANGED <<capVars, popup, checking, io_down, hour, cwd, keystrokes, alert_status, alerts_log,
                 guardian_email, sent, session>>

\* reset_analysis_cache()
ResetAnalysisCache ==
  /\ session = "running"
  /\ obs.resets < MaxResets
  /\ analysis_cache' = <<>>
  /\ last_file_size' = 0
  /\ sentiment_cache' = <<>>
  /\ ret' = RetBase("reset_analysis_cache")
  /\ obs' = [obs EXCEPT !.resets = @ + 1]
  /\ UNCHANGED <<capVars, popup, checking, io_down, hour, sentiment_history, message_context_window,
                 circadian, concerning_log, cwd, fileVars, mood_buffer,
                 guardian_email, sent, session>>

\* what a call of save_mood_to_history or flush_mood_buffer that ended as m
\* leaves
MoodWritten(op, m, saved) ==
  /\ mood_buffer' = m.buffer
  /\ mood_history' = [mood_history EXCEPT ![cwd] = m.file]
  /\ ret' = [RetBase(op) EXCEPT !.flush = m.flush, !.before = mood_buffer]
  /\ obs' = [obs EXCEPT !.saved = saved]

\* save_mood_to_history(score), called directly
SaveMood(score) ==
  /\ session = "running"
  /\ Len(obs.saved) < StartMoods + MaxSaves
  /\ MoodWritten("save_mood_to_history",
                 save_mood_to_history(mood_buffer, mood_history[cwd], score, hour),
                 Append(obs.saved, [timestamp |-> hour, score |-> score]))
  /\ UNCHANGED <<capVars, popup, checking, io_down, hour, engineVars, cwd, keystrokes, alert_status,
                 alerts_log, analysis_cache, last_file_size, guardian_email,
                 sent, session>>

\* flush_mood_buffer(), called directly
FlushMoodBuffer ==
  /\ session = "running"
  /\ MoodWritten("flush_mood_buffer",
                 flush_mood_buffer(mood_buffer, mood_history[cwd]), obs.saved)
  /\ UNCHANGED <<capVars, popup, checking, io_down, hour, engineVars, cwd, keystrokes, alert_status,
                 alerts_log, analysis_cache, last_file_size, guardian_email,
                 sent, session>>

\* detect_statistical_anomaly(score), called directly
Detected(score, a) ==
  /\ sentiment_history' = a.window
  /\ ret' = [RetBase("detect_statistical_anomaly") EXCEPT
               !.score = score, !.is_anomaly = a.is_anomaly, !.result = a.adj]
  /\ obs' = [obs EXCEPT !.calls = @ + 1]

DetectStatisticalAnomaly(score) ==
  /\ session = "running"
  /\ obs.calls < MaxRecords
  /\ Detected(score, detect_statistical_anomaly(sentiment_history, score))
  /\ UNCHANGED <<capVars, popup, checking, io_down, hour, sentiment_cache, message_context_window,
                 circadian, concerning_log, cwd, fileVars, historyVars,
                 guardian_email, sent, session>>

\* detect_statistical_anomaly(score), called directly, on a window that
\* fills and then turns over
DetectInWindow(score) ==
  /\ session = "running"
  /\ obs.calls < MaxWindowCalls
  /\ Detected(score, detect_statistical_anomaly(sentiment_history, score))
  /\ UNCHANGED <<capVars, popup, checking, io_down, hour, sentiment_cache, message_context_window,
                 circadian, concerning_log, cwd, fileVars, historyVars,
                 guardian_email, sent, session>>

\* normalize_by_time(score), called directly, with n its outcome
Normalized(score, n, same) ==
  /\ circadian' = n.profile
  /\ ret' = [RetBase("normalize_by_time") EXCEPT
               !.score = score, !.result = n.normalized, !.baseline = n.baseline]
  /\ obs' = [obs EXCEPT !.streak = IF same THEN @ + 1 ELSE 1,
                        !.switches = IF same THEN @ ELSE @ + 1,
                        !.calls = @ + 1]

NormalizeByTime(score) ==
  /\ session = "running"
  /\ obs.calls < MaxNormalize
  /\ obs.streak > 0 /\ ret.score # score => obs.switches < MaxSwitches
  /\ Normalized(score, normalize_by_time(circadian, hour, score),
                obs.streak = 0 \/ ret.score = score)
  /\ UNCHANGED <<capVars, popup, checking, io_down, hour, sentiment_cache, sentiment_history,
                 message_context_window, concerning_log, cwd, fileVars,
                 historyVars, guardian_email, sent, session>>

\* normalize_by_time(score), called directly, at any hour and with any
\* score after any other
NormalizeCall(score) ==
  /\ session = "running"
  /\ obs.calls < MaxProfileCalls
  /\ LET n == normalize_by_time(circadian, hour, score)
     IN  /\ circadian' = n.profile
         /\ ret' = [RetBase("normalize_by_time") EXCEPT
                      !.score = score, !.result = n.normalized,
                      !.baseline = n.baseline]
  /\ obs' = [obs EXCEPT !.calls = @ + 1]
  /\ UNCHANGED <<capVars, popup, checking, io_down, hour, sentiment_cache, sentiment_history,
                 message_context_window, concerning_log, cwd, fileVars,
                 historyVars, guardian_email, sent, session>>

\* normalize_by_time(score) whose json.dump raises after open(.., 'w') has
\* emptied the file: the except clause swallows the error and the file stays
\* as the failed write left it
NormalizeTornWrite(score) ==
  /\ session = "running"
  /\ obs.calls < MaxProfileCalls
  /\ ~Down("circadian")
  /\ LET n == normalize_by_time(circadian, hour, score)
     IN  /\ circadian' = NotJson
         /\ ret' = [RetBase("normalize_torn_write") EXCEPT
                      !.score = score, !.result = n.normalized,
                      !.baseline = n.baseline]
  /\ obs' = [obs EXCEPT !.calls = @ + 1]
  /\ UNCHANGED <<capVars, popup, checking, io_down, hour, sentiment_cache, sentiment_history,
                 message_context_window, concerning_log, cwd, fileVars,
                 historyVars, guardian_email, sent, session>>

\* what the file may hold after two callers have run normalize_by_time(s1)
\* and normalize_by_time(s2) at the same time, with nothing to order their
\* reads and writes.  The first loads the file; the second loads it too, or
\* the file the first has emptied (which gives the default), or the file the
\* first has written.  Each writes its own whole profile from offset 0: the
\* file ends as one of the two, or as the shorter of them followed by the
\* tail of the longer, which is not a JSON document.
RaceOutcomes(profile, h, s1, s2) ==
  LET wa == update_circadian_profile(profile, h, s1)
      loaded == {load_circadian_profile(profile), DefaultProfile, wa}
  IN  {wa, NotJson} \cup {update_circadian_profile(b, h, s2) : b \in loaded}

\* two callers in normalize_by_time at the same time
NormalizeRace(s1, s2) ==
  /\ session = "running"
  /\ obs.calls + 1 < MaxProfileCalls
  /\ ~Down("circadian")
  /\ circadian' \in RaceOutcomes(circadian, hour, s1, s2)
  /\ ret' = [RetBase("normalize_race") EXCEPT !.score = s2]
  /\ obs' = [obs EXCEPT !.calls = @ + 2]
  /\ UNCHANGED <<capVars, popup, checking, io_down, hour, sentiment_cache, sentiment_history,
                 message_context_window, concerning_log, cwd, fileVars,
                 historyVars, guardian_email, sent, session>>

\* the environment: open() of the file starts or stops raising
IOToggle(name) ==
  /\ session = "running"
  /\ io_down' = IF Down(name) THEN io_down \ {name} ELSE io_down \cup {name}
  /\ ret' = RetBase("io")
  /\ UNCHANGED <<capVars, popup, checking, hour, engineVars, cwd, fileVars, historyVars,
                 guardian_email, sent, session, obs>>

\* the environment: a file that exists comes to hold something json.load
\* rejects
Corrupt(name) ==
  /\ session = "running"
  /\ name = "alert_status" =>
       /\ alert_status[cwd].exists /\ ~alert_status[cwd].malformed
       /\ alert_status' = [alert_status EXCEPT ![cwd].malformed = TRUE]
       /\ UNCHANGED mood_history
  /\ name = "mood_history" =>
       /\ mood_history[cwd].exists /\ ~mood_history[cwd].malformed
       /\ mood_history' = [mood_history EXCEPT ![cwd].malformed = TRUE]
       /\ UNCHANGED alert_status
  /\ ret' = RetBase("corrupt")
  /\ UNCHANGED <<capVars, popup, checking, io_down, hour, engineVars, cwd, keystrokes, alerts_log,
                 historyVars, guardian_email, sent, session, obs>>

-----------------------------------------------------------------------------
(* Session teardown *)

CleanupKeep == 200

\* cleanup() of main.py with working directory dir, mood buffer b and mood
\* history files hist: flush the mood buffer, reset the alert status and the
\* caches, clear the keystroke log and the alert log, trim the mood history
\* (a history file json.load rejects is left as it is)
CleanupFrom(dir, b, hist) ==
  LET m == flush_mood_buffer(b, hist[dir])
  IN  /\ mood_buffer' = m.buffer
      /\ mood_history' = [hist EXCEPT ![dir] =
                            IF m.file.exists /\ ~m.file.malformed
                            THEN File(LastN(m.file.data, CleanupKeep))
                            ELSE m.file]
      /\ alert_status' = reset_alert_status(alert_status, dir)
      /\ analysis_cache' = <<>>
      /\ last_file_size' = 0
      /\ sentiment_cache' = <<>>
      /\ keystrokes' = IF keystrokes[dir].exists
                       THEN [keystrokes EXCEPT ![dir] = File(<<>>)] ELSE keystrokes
      /\ alerts_log' = IF alerts_log[dir].exists
                       THEN [alerts_log EXCEPT ![dir] = File(<<>>)] ELSE alerts_log
      /\ UNCHANGED <<capVars, popup, checking, io_down, hour, sentiment_history, message_context_window,
                     circadian, concerning_log, guardian_email, sent>>

Cleanup(dir) == CleanupFrom(dir, mood_buffer, mood_history)

\* on_close(): the window is closed; sys.exit() then unwinds main
OnClose ==
  /\ session = "running"
  /\ keystrokes' = IF Log.exists THEN [keystrokes EXCEPT ![cwd] = File(<<>>)]
                   ELSE keystrokes
  /\ alerts_log' = IF alerts_log[cwd].exists
                   THEN [alerts_log EXCEPT ![cwd] = File(<<>>)] ELSE alerts_log
  /\ alert_status' = reset_alert_status(alert_status, cwd)
  /\ session' = "unwinding"
  /\ ret' = RetBase("on_close")
  /\ obs' = [obs EXCEPT !.fresh_trigger = FALSE]
  /\ UNCHANGED <<capVars, popup, checking, io_down, hour, engineVars, cwd, mood_history, historyVars,
                 guardian_email, sent>>

\* `except KeyboardInterrupt: cleanup()` of main
Interrupted ==
  /\ session = "running"
  /\ Cleanup(cwd)
  /\ session' = "unwinding"
  /\ ret' = RetBase("KeyboardInterrupt")
  /\ obs' = [obs EXCEPT !.fresh_trigger = FALSE]
  /\ UNCHANGED cwd

\* `except Exception: cleanup(); raise` of main
Crashed ==
  /\ session = "running"
  /\ Cleanup(cwd)
  /\ session' = "unwinding"
  /\ ret' = RetBase("crash")
  /\ obs' = [obs EXCEPT !.fresh_trigger = FALSE]
  /\ UNCHANGED cwd

\* signal_handler(signum, frame): cleanup(); sys.exit(0)
SignalHandler ==
  /\ session = "running"
  /\ Cleanup(cwd)
  /\ session' = "unwinding"
  /\ ret' = RetBase("signal_handler")
  /\ obs' = [obs EXCEPT !.fresh_trigger = FALSE]
  /\ UNCHANGED cwd

\* the buffer and the history file as flush_mood_buffer() on buffer b and
\* file f has left them at one of its steps: "extended" before the file is
\* opened for writing, "opened" once open(..., "w") has truncated it and
\* before json.dump, "written" after the file is written and closed and before
\* `_mood_buffer = []`
FlushReached(b, f, at) ==
  [buffer |-> b,
   file |-> CASE at = "extended" -> f
              [] at = "opened" -> [exists |-> TRUE, data |-> <<>>, malformed |-> TRUE]
              [] at = "written" ->
                   File(TrimHistory((IF f.exists THEN f.data ELSE <<>>) \o b))]

FlushSteps == {"extended", "opened", "written"}

\* SIGINT or SIGTERM is delivered while save_mood_to_history(score) is inside
\* the flush_mood_buffer() it calls at ten buffered entries: the interpreter
\* runs signal_handler between two bytecodes of the flush, cleanup() flushes
\* again and sys.exit(0) abandons the interrupted frame
SignalInFlush(score, at) ==
  LET entry == [timestamp |-> hour, score |-> score]
      b2 == Append(mood_buffer, entry)
      p == FlushReached(b2, mood_history[cwd], at)
  IN  /\ session = "running"
      /\ FlushDue(b2)
      /\ ~FlushRaises(mood_history[cwd])
      /\ CleanupFrom(cwd, p.buffer, [mood_history EXCEPT ![cwd] = p.file])
      /\ session' = "unwinding"
      /\ ret' = [RetBase("signal_handler") EXCEPT !.before = b2, !.state = at]
      /\ obs' = [obs EXCEPT !.saved = Append(@, entry), !.fresh_trigger = FALSE]
      /\ UNCHANGED cwd

\* the finally block of main: cleanup_user_session(); cleanup()
Finally ==
  /\ session = "unwinding"
  /\ cwd' = "orig"
  /\ Cleanup("orig")
  /\ session' = "atexit"
  /\ ret' = RetBase("finally")
  /\ UNCHANGED obs

\* atexit.register(cleanup)
AtExit ==
  /\ session = "atexit"
  /\ Cleanup(cwd)
  /\ session' = "closed"
  /\ ret' = RetBase("atexit")
  /\ UNCHANGED <<cwd, obs>>

\* a file of the user's directory as initialize_user_data leaves it: created
\* with its default content when it does not exist
Initialized(file, default) == IF file.exists THEN file ELSE File(default)

\* the next run of the program by the same user, once the last has ended:
\* a new process, whose module state is that of the import, and
\* initialize_user_data(user)
StartSession ==
  /\ session = "closed"
  /\ obs.sessions < MaxSessions
  /\ session' = "running"
  /\ cwd' = "user"
  /\ keystrokes' = [keystrokes EXCEPT !["user"] = Initialized(@, <<>>)]
  /\ mood_history' = [mood_history EXCEPT !["user"] = Initialized(@, <<>>)]
  /\ alert_status' = [alert_status EXCEPT !["user"] = Initialized(@, 0)]
  /\ alerts_log' = [alerts_log EXCEPT !["user"] = Initialized(@, <<>>)]
  /\ sentiment_cache' = <<>>
  /\ sentiment_history' = <<>>
  /\ message_context_window' = <<>>
  /\ analysis_cache' = <<>>
  /\ last_file_size' = 0
  /\ mood_buffer' = <<>>
  /\ ret' = RetBase("initialize_user_data")
  /\ obs' = [obs EXCEPT !.sessions = @ + 1]
  /\ UNCHANGED <<capVars, popup, checking, io_down, hour, circadian, concerning_log,
                 guardian_email, sent>>

-----------------------------------------------------------------------------
(* Specifications *)

\* The alert threshold engine over a growing log, and session teardown
Init == InitWith({Repeat(Sad, StartLines)}, MaxLines, {<<TRUE, TRUE>>})

Next ==
  \/ \E t \in LogTexts : AppendLine(t)
  \/ CountBelowThreshold
  \/ CheckAndAlert
  \/ CheckAndAddGuardianAlert
  \/ OnClose
  \/ Interrupted
  \/ Crashed
  \/ SignalHandler
  \/ Finally
  \/ AtExit

Spec == Init /\ [][Next]_vars

\* Alert checks whose read and commit the capture source may come between
InitRace == InitWith({Repeat(Sad, StartLines)}, MaxRaceLines, {<<TRUE, TRUE>>})

NextRace ==
  \/ \E t \in {Sad, Happy} : AppendLine(t)
  \/ \E op \in {"check_and_alert", "check_and_add_guardian_alert"} : CheckReads(op)
  \/ CheckCommits

SpecRace == InitRace /\ [][NextRace]_vars

\* The day analysis, which fills the mood buffer, and the window-close exit
InitClose == InitWith({<<>>}, MaxCloseLines, {<<TRUE, TRUE>>})

NextClose ==
  \/ \E t \in {Sad, Happy} : AppendLine(t)
  \/ GetDayAnalysis
  \/ OnClose
  \/ Finally
  \/ AtExit

SpecClose == InitClose /\ [][NextClose]_vars

\* The alert pointer over sessions that follow one another
InitSessions == InitWith({Repeat(Sad, StartLines)}, MaxSessionLines, {<<TRUE, TRUE>>})

NextSessions ==
  \/ \E t \in {Sad, Happy} : AppendLine(t)
  \/ CheckAndAlert
  \/ CheckAndAddGuardianAlert
  \/ OnClose
  \/ Interrupted
  \/ Crashed
  \/ SignalHandler
  \/ Finally
  \/ AtExit
  \/ StartSession

SpecSessions == InitSessions /\ [][NextSessions]_vars

\* The score compositor called on texts
InitAnalyze == InitWith({<<>>}, 0, BOOLEAN \X BOOLEAN)

NextAnalyze ==
  \/ \E t \in AnalyzeTexts : AnalyzeSentiment(t)
  \/ Tick

SpecAnalyze == InitAnalyze /\ [][NextAnalyze]_vars

\* The layers of the compositor on texts that set off several of them: a
\* crisis keyword with a venting indicator, profanity beside a positive
\* word, an idiom beside a sarcasm marker
LayerTexts ==
  {<<"fine", "ugh", "give up">>, <<"fuck", "happy">>,
   <<"hits different", "wonderful", "awful">>, <<"sad">>}

NextLayers == \E t \in LayerTexts : AnalyzeSentiment(t)

SpecLayers == InitAnalyze /\ [][NextLayers]_vars

\* The compositor on utterances longer than the cache key that begin alike
NextKey ==
  \/ \E t \in KeyTexts : AnalyzeSentiment(t)
  \/ Tick

SpecKey == InitAnalyze /\ [][NextKey]_vars

\* The incremental history analyzer over a growing log
InitHistory == InitWith({<<>>}, MaxHistoryLines, {<<TRUE, TRUE>>})

NextHistory ==
  \/ \E t \in LogTexts : AppendLine(t)
  \/ GetDayAnalysis
  \/ Tick

SpecHistory == InitHistory /\ [][NextHistory]_vars

\* The guardian dashboard and the alert log over a growing log
InitGuardian ==
  /\ InitWith({Repeat(Sad, GuardianStartLines)}, MaxGuardianLines, {<<TRUE, TRUE>>})
  /\ guardian_email

NextGuardian ==
  \/ \E t \in {Sad, Happy} : AppendLine(t)
  \/ popup = "none" /\ CheckAndAddGuardianAlert
  \/ ShowGuardian
  \/ GetCurrentAlertState
  \/ popup = "none" /\ Tick

SpecGuardian == InitGuardian /\ [][NextGuardian]_vars

\* The day analysis with calls of reset_analysis_cache
InitReset == InitWith({<<>>}, MaxResetLines, {<<TRUE, TRUE>>})

NextReset ==
  \/ \E t \in LogTexts : AppendLine(t)
  \/ GetDayAnalysis
  \/ ResetAnalysisCache

SpecReset == InitReset /\ [][NextReset]_vars

\* The day analysis over a log that is also cut from outside
InitShrink == InitWith({<<>>}, MaxShrinkLines, {<<TRUE, TRUE>>})

NextShrink ==
  \/ \E t \in LogTexts : AppendLine(t)
  \/ GetDayAnalysis
  \/ \E n \in 0..(MaxShrinkLines - 1) : TruncateLog(n)

SpecShrink == InitShrink /\ [][NextShrink]_vars

\* Scans of a log that holds lines on which a model raises
InitFail == InitWith({<<>>}, MaxFailLines, {<<TRUE, TRUE>>})

NextFail ==
  \/ \E t \in FailTexts : AppendLine(t)
  \/ GetDayAnalysis
  \/ CountBelowThreshold

SpecFail == InitFail /\ [][NextFail]_vars

\* The buffered writer of the mood history.  The history file holds entries
\* of earlier sessions; open() of the file may fail for a while.  The writer
\* never reads an entry, so the saved scores are taken all different: any
\* loss, repetition or change of order then shows.
MoodScoreAt(n) == (n % (2 * ScoreUnit + 1)) - ScoreUnit

InitMood ==
  InitFrom({<<>>}, 0, {<<TRUE, TRUE>>},
           Repeat([timestamp |-> (StartHour + 23) % 24, score |-> 0], StartMoods))

NextMood ==
  \/ SaveMood(MoodScoreAt(Len(obs.saved)))
  \/ FlushMoodBuffer
  \/ IOToggle("mood_history")

SpecMood == InitMood /\ [][NextMood]_vars

\* The buffered writer and the teardown a signal starts, inside a flush or
\* between two calls
MaxSignalSaves == 11

InitSignal == InitWith({<<>>}, 0, {<<TRUE, TRUE>>})

NextSignal ==
  \/ \E s \in {MoodScoreAt(Len(obs.saved)), 0} :
       Len(obs.saved) < MaxSignalSaves /\ SaveMood(s)
  \/ \E at \in FlushSteps : SignalInFlush(MoodScoreAt(Len(obs.saved)), at)
  \/ SignalHandler
  \/ Finally
  \/ AtExit

SpecSignal == InitSignal /\ [][NextSignal]_vars

\* every line of the scan traced in tr got its score from the result cache
AllHits(tr) == \A j \in 1..Len(tr) : tr[j].hit

\* C35: count_below_threshold leaves last_alert_line and the alert log as
\* they are, and a call that follows at once a call whose lines were all in
\* the result cache, the log unchanged, returns the same count and the same
\* number of lines.
C35_CountReadOnly ==
  [][ret'.op = "count_below_threshold" =>
       /\ alert_status' = alert_status
       /\ alerts_log' = alerts_log
       /\ (ret.op = "count_below_threshold" /\ AllHits(ret.trace)) =>
            /\ ret'.count = ret.count
            /\ ret'.total = ret.total
            /\ ret'.neg_lines = ret.neg_lines]_vars

\* a call that found every line after a pointer beyond 0 in the cache and
\* counted some of them
C35_Witness ==
  /\ ret.op = "count_below_threshold"
  /\ ret.start > 0
  /\ ret.total > ret.start
  /\ ret.count > 0
  /\ ret.trace # <<>>
  /\ AllHits(ret.trace)
  /\ alerts_log[cwd].data # <<>>

\* C36: a call of analyze_sentiment answered from the result cache leaves
\* the rolling window, the context window, the circadian profile, the
\* concerning log and the cache itself as they were.
C36_HitChangesNothing ==
  [][(ret'.op = "analyze_sentiment" /\ ret'.hit) =>
       /\ sentiment_history' = sentiment_history
       /\ message_context_window' = message_context_window
       /\ circadian' = circadian
       /\ concerning_log' = concerning_log
       /\ sentiment_cache' = sentiment_cache]_vars

\* a hit on the older of two cached texts, with the windows in use
C36_Witness ==
  /\ ret.op = "analyze_sentiment"
  /\ ret.hit
  /\ Len(sentiment_cache) >= 2
  /\ sentiment_cache[1].key = CacheKey(ret.text)
  /\ Len(sentiment_history) >= 2
  /\ Len(message_context_window) >= 2

\* C37: analyze_sentiment answers from the result cache only an utterance
\* whose whole text, trimmed and in lower case, is that of an utterance
\* analysed before; utterances that differ anywhere, behind their first 100
\* characters too, are scored each on its own.
C37_CachedForSameText ==
  [][(ret'.op = "analyze_sentiment" /\ ret'.hit) =>
       \E u \in AllTexts :
         /\ obs.last_score[u] # NoScore
         /\ Lower(Strip(u)) = Lower(Strip(ret'.text))]_vars

\* C34: when the flush the teardown runs from the signal handler is
\* interleaved with a save_mood_to_history whose own flush is under way, the
\* closing user's persisted history followed by the buffer still holds every
\* saved entry exactly once, in the order saved.
C34_SavedExactlyOnce ==
  session \in {"running", "unwinding"} =>
    mood_history["user"].data \o mood_buffer = obs.saved

InitFaults == InitWith({<<>>}, MaxFailLines, {<<TRUE, TRUE>>})

NextFaults ==
  \/ \E t \in {Sad, Happy} : AppendLine(t)
  \/ CountBelowThreshold
  \/ CheckAndAddGuardianAlert
  \/ GetDayAnalysis
  \/ FlushMoodBuffer
  \/ \E name \in FileNames : IOToggle(name)
  \/ \E name \in {"alert_status", "mood_history"} : Corrupt(name)

SpecFaults == InitFaults /\ [][NextFaults]_vars

\* The rolling window of detect_statistical_anomaly: scores within 0.05 of
\* zero, and one of -0.9
AnomalyScores == {-5, 5, -90}

NextAnomaly == \E score \in AnomalyScores : DetectStatisticalAnomaly(score)

InitAnomaly == InitWith({<<>>}, 0, {<<TRUE, TRUE>>})

SpecAnomaly == InitAnomaly /\ [][NextAnomaly]_vars

\* The circadian baseline of one hour under direct calls of
\* normalize_by_time
NormalizeScores == {-100, 30, 100}

NextCircadian == \E score \in NormalizeScores : NormalizeByTime(score)

SpecCircadian == InitAnomaly /\ [][NextCircadian]_vars

\* The rolling window turning over: scores 0.01 apart, and one of -0.9
WindowScores == {5, 6, -90}

NextWindow == \E score \in WindowScores : DetectInWindow(score)

\* a session with no guardian registered
InitWindow == InitAnomaly /\ ~guardian_email

SpecWindow == InitWindow /\ [][NextWindow]_vars

\* The result cache filled to its capacity and beyond
NextCache ==
  \/ AnalyzeNth(obs.fresh + 1)
  \/ \E n \in RepeatIndexes : AnalyzeNth(n)

SpecCache == InitAnomaly /\ [][NextCache]_vars

\* The circadian profile file under calls of normalize_by_time at two
\* hours, with writes that fail, a file that cannot be opened and callers
\* that overlap
NextProfile ==
  \/ \E score \in NormalizeScores : NormalizeCall(score)
  \/ \E score \in NormalizeScores : NormalizeTornWrite(score)
  \/ \E s1, s2 \in NormalizeScores : NormalizeRace(s1, s2)
  \/ IOToggle("circadian")
  \/ Tick

SpecProfile == InitAnomaly /\ [][NextProfile]_vars

\* What the engine persists of long utterances
InitPrivacy ==
  InitWith({Repeat(LongSad, ALERT_LIMIT)}, MaxPrivacyLines, {<<TRUE, TRUE>>})

NextPrivacy ==
  \/ \E t \in PrivacyTexts : AppendLine(t)
  \/ CountBelowThreshold
  \/ CheckAndAddGuardianAlert
  \/ GetDayAnalysis

SpecPrivacy == InitPrivacy /\ [][NextPrivacy]_vars

-----------------------------------------------------------------------------
(* Properties *)

\* C1: every score analyze_sentiment returns, after any earlier calls and
\* whether the call missed the cache, hit it, got a blank text or caught an
\* exception, lies in [-1.0, 1.0], and so does every score held in the cache.
C1_ScoreInRange ==
  /\ ret.op = "analyze_sentiment" => ret.score \in -ScoreUnit..ScoreUnit
  /\ \A i \in 1..Len(sentiment_cache) :
       sentiment_cache[i].score \in -ScoreUnit..ScoreUnit

\* a call whose phases summed to 1.0 or more and whose score was cached
C1_Witness ==
  /\ ret.op = "analyze_sentiment"
  /\ ~ret.hit /\ ~ret.raised
  /\ ret.score = ScoreUnit
  /\ \E i \in 1..Len(sentiment_cache) : sentiment_cache[i].score = ScoreUnit

\* C2: a text that holds a crisis phrase gets a final score of -0.7 or less,
\* whatever the other layers add and whatever the engine's state.
C2_CrisisCapsFinalScore ==
  ( /\ ret.op = "analyze_sentiment"
    /\ ~ret.raised
    /\ \E i \in 1..Len(ret.text) : LowerTok(ret.text[i]) \in CRISIS_KEYWORDS )
  => ret.score <= -70

\* C3: while the session runs, no step (an append to the log, a count, a
\* check by either path) lowers the persisted last_alert_line.
C3_PointerNeverDecreases ==
  [][session' = "running" =>
       alert_status'["user"].data >= alert_status["user"].data]_vars

\* the pointer has advanced twice
C3_Witness ==
  /\ session = "running"
  /\ ret.triggered
  /\ ret.start > 0
  /\ alert_status["user"].data > ret.start

\* C4: once a check has triggered, and until a line is appended,
\* count_below_threshold finds no negative line.
C4_NoNegativesAfterTrigger ==
  (session = "running" /\ obs.fresh_trigger) => count_below_threshold.count = 0

\* the count was run again after a trigger, with no line appended since
C4_Witness ==
  /\ obs.fresh_trigger
  /\ ret.op = "count_below_threshold"
  /\ ret.start = ret.total
  /\ ret.total >= ALERT_LIMIT + 1

\* C5: a check that runs the count triggers exactly when more than
\* ALERT_LIMIT of the non-blank lines after last_alert_line score below
\* THRESHOLD; when it triggers the pointer becomes the number of lines of the
\* log, otherwise the pointer stays.
C5_TriggerIffOverLimit ==
  ( /\ ret.op \in {"check_and_alert", "check_and_add_guardian_alert"}
    /\ ret.op = "check_and_alert" => guardian_email )
  => /\ {ret.trace[j].line : j \in 1..Len(ret.trace)}
          = {i \in (ret.start + 1)..Len(Log.data) :
               \E j \in 1..Len(Log.data[i]) : Log.data[i][j] # Blank}
     /\ ret.triggered <=>
          Cardinality({j \in 1..Len(ret.trace) : ret.trace[j].score < THRESHOLD})
            > ALERT_LIMIT
     /\ get_alert_status = IF ret.triggered THEN Len(Log.data) ELSE ret.start

\* a second trigger, by the lines after the pointer of the first
C5_Witness ==
  /\ ret.op \in {"check_and_alert", "check_and_add_guardian_alert"}
  /\ ret.triggered
  /\ ret.start >= ALERT_LIMIT + 1
  /\ get_alert_status = Len(Log.data)

\* C6: every check that triggers calls the Notification Sender, appends
\* exactly one AlertRecord and moves last_alert_line to the number of lines.
C6_TriggerDoesAllThree ==
  [][(ret'.triggered /\ ret' # ret) =>
       /\ Len(sent') = Len(sent) + 1
       /\ Len(alerts_log'[cwd].data) = Len(alerts_log[cwd].data) + 1
       /\ alert_status'[cwd].data = Len(Log.data)]_vars

\* C7: when k non-blank lines were appended to a log scanned before,
\* get_day_analysis analyzes those k lines and no other, saves k scores, and
\* returns the earlier result followed by k entries.
C7_IncrementalScanExact ==
  ( /\ ret.op = "get_day_analysis"
    /\ ret.grew = 1
    /\ ret.total > ret.start
    /\ \A i \in (ret.start + 1)..ret.total :
         \E j \in 1..Len(Log.data[i]) : Log.data[i][j] # Blank )
  => /\ [j \in 1..Len(ret.trace) |-> ret.trace[j].line]
          = [j \in 1..(ret.total - ret.start) |-> ret.start + j]
     /\ ret.saves = ret.total - ret.start
     /\ Len(ret.result) = Len(ret.before) + (ret.total - ret.start)
     /\ SubSeq(ret.result, 1, Len(ret.before)) = ret.before

\* C8: a call on a text whose cache entry has stayed since the last call on
\* that same text returns the score of that last call.
C8_RepeatedCallSameScore ==
  [][( /\ ret'.op = "analyze_sentiment"
       /\ obs'.calls = obs.calls + 1
       /\ ret'.text \in obs.in_window )
     => ret'.score = obs.last_score[ret'.text]]_vars

\* a hit on the oldest entry of the cache: a call on another text came
\* between and moved the rolling window
C8_Witness ==
  /\ ret.op = "analyze_sentiment"
  /\ ret.hit
  /\ Len(sentiment_cache) >= 2
  /\ Len(sentiment_history) >= 2
  /\ sentiment_cache[1].key = Lower(Strip(ret.text))
  /\ sentiment_cache[1].score # sentiment_cache[2].score

\* C9: on an empty text or one of blanks only, analyze_sentiment returns 0.0,
\* calls no classifier and changes nothing of the engine's state.
C9_BlankInputNoEffect ==
  [][( /\ ret'.op = "analyze_sentiment"
       /\ obs'.calls = obs.calls + 1
       /\ \A i \in 1..Len(ret'.text) : ret'.text[i] = Blank )
     => /\ ret'.score = 0
        /\ ret'.models = 0
        /\ UNCHANGED engineVars]_vars

\* a text of blanks only, given to an engine that already holds state
C9_Witness ==
  /\ ret.op = "analyze_sentiment"
  /\ ret.text = <<Blank, Blank>>
  /\ sentiment_cache # <<>>
  /\ sentiment_history # <<>>

\* C10: once any teardown path has run, the last_alert_line the session
\* persisted is 0.
C10_PointerZeroAfterTeardown ==
  session # "running" =>
    alert_status["user"].exists /\ alert_status["user"].data = 0

\* teardown has run to its end in a session that had sent an alert, so its
\* pointer stood beyond ALERT_LIMIT
C10_Witness ==
  /\ session = "closed"
  /\ sent # <<>>

\* C11: a call of analyze_sentiment in which a model raises returns 0.0 and
\* caches nothing for its text, and the scan that made the call goes on to
\* the lines after it: every non-blank line of the scan gets its score.
C11_FailureIsNeutralAndLocal ==
  ret.op \in {"count_below_threshold", "get_day_analysis"} =>
    /\ ~ret.raised
    /\ \A j \in 1..Len(ret.trace) :
         ret.trace[j].raised =>
           /\ ret.trace[j].score = 0
           /\ \A i \in 1..Len(sentiment_cache) :
                sentiment_cache[i].key # Lower(ret.trace[j].text)
    /\ ret.trace # <<>> =>
         {ret.trace[j].line : j \in 1..Len(ret.trace)}
           = {i \in ret.trace[1].line..Len(Log.data) : Log.data[i] # <<>>}

\* a scan went past a line on which the classifier raised
C11_Witness ==
  /\ ret.op \in {"count_below_threshold", "get_day_analysis"}
  /\ Len(ret.trace) = MaxFailLines
  /\ ret.trace[1].raised
  /\ ~ret.trace[MaxFailLines].raised

\* C14: no resource the engine writes (reason_lines of the alert log, the
\* concerning-analysis log, the mood history) holds the full text of an
\* utterance of the log that is longer than the 100 characters of an excerpt.
C14_NoUtteranceVerbatim ==
  \A i \in 1..Len(Log.data) :
    Len(Log.data[i]) > 100 =>
      /\ \A k \in 1..Len(alerts_log[cwd].data) :
           \A l \in 1..Len(alerts_log[cwd].data[k].reason_lines) :
             alerts_log[cwd].data[k].reason_lines[l] # Log.data[i]
      /\ \A k \in 1..Len(concerning_log) :
           \/ Len(concerning_log[k].text_sample) < Len(Log.data[i])
           \/ SubSeq(concerning_log[k].text_sample, 1, Len(Log.data[i])) # Log.data[i]
      /\ \A k \in 1..Len(mood_history[cwd].data) :
           DOMAIN mood_history[cwd].data[k] = {"timestamp", "score"}

\* the entries that a flush has taken out of the buffer so far
Flushed == FirstN(obs.saved, Len(obs.saved) - Len(mood_buffer))

\* C15: after any calls of save_mood_to_history and flush_mood_buffer the
\* mood history file holds at most 500 entries, and they are the newest of
\* the entries flushed so far, in the order they were saved: beyond 500 the
\* oldest are dropped.
C15_HistoryCapped ==
  /\ Len(mood_history[cwd].data) <= 500
  /\ mood_history[cwd].data = LastN(Flushed, 500)

C15_Witness ==
  /\ ret.flush = "ok"
  /\ Len(Flushed) > 500
  /\ Len(mood_history[cwd].data) = 500

C12_MalformedIsDefault ==
  io_down = {} =>
    /\ (ret.op = "count_below_threshold" /\ alert_status[cwd].malformed) =>
         /\ ~ret.raised
         /\ ret.trace # <<>> => ret.trace[1].line = 1
    /\ (ret.op = "flush_mood_buffer" /\ ret.before # <<>>) =>
         /\ mood_buffer = <<>>
         /\ ~mood_history[cwd].malformed

\* C13: while open() of the circadian, mood-history, alert-status or
\* keystroke-log file fails, none of get_day_analysis, count_below_threshold,
\* an alert check and the mood writer raises to its caller.
C13_IOFailureNotRaised ==
  (~alert_status[cwd].malformed /\ ~mood_history[cwd].malformed /\ io_down # {}) =>
    (ret.op \in {"get_day_analysis", "count_below_threshold",
                  "check_and_add_guardian_alert", "flush_mood_buffer"}
       => ~ret.raised)

\* C16: when the rolling window holds nine scores within 0.05 of zero and
\* the score just recorded, the tenth, is -0.9 or less, that call of
\* detect_statistical_anomaly returns is_anomaly = true.
C16_TenthScoreIsAnomaly ==
  (/\ ret.op = "detect_statistical_anomaly"
   /\ Len(sentiment_history) = 10
   /\ \A i \in 1..9 : Abs(sentiment_history[i]) <= 5
   /\ sentiment_history[10] <= -90)
    => ret.is_anomaly

C16_Witness ==
  /\ ret.op = "detect_statistical_anomaly"
  /\ Len(sentiment_history) = 10
  /\ \A i \in 1..9 : Abs(sentiment_history[i]) <= 5
  /\ sentiment_history[10] = -90
  /\ ret.is_anomaly

\* the distance 0.011 within which the baseline counts as having reached
\* the score
Tolerance == (11 * BaselineUnit) \div 1000

\* C17: every call of normalize_by_time with score s moves the baseline of
\* the hour toward s, the distance shrinking by the factor 0.9 (to the
\* rounding of the last digit), and after 50 calls in a row with the same s
\* at the same hour the baseline is within 0.011 of s.
C17_BaselineConverges ==
  ret.op = "normalize_by_time" =>
    LET s == (BaselineUnit \div ScoreUnit) * ret.score
        before == ret.baseline - s
        after == circadian[hour] - s
    IN  /\ Abs(10 * after - 9 * before) <= 5
        /\ Abs(after) <= Abs(before)
        /\ Abs(before) > 5 => Abs(after) < Abs(before)
        /\ after * before >= 0
        /\ obs.streak >= 50 => Abs(after) <= Tolerance

C17_Witness ==
  /\ ret.op = "normalize_by_time"
  /\ obs.streak = 50
  /\ obs.switches = 1
  /\ Abs(circadian[hour] - (BaselineUnit \div ScoreUnit) * ret.score) > 50
  /\ Abs(circadian[hour] - (BaselineUnit \div ScoreUnit) * ret.score) <= Tolerance

\* C18: when the size of the log is the recorded one and the history cache
\* is not empty, get_day_analysis returns the cache as it is, calls
\* analyze_sentiment on no line, saves no score, and leaves the cache, the
\* recorded size, the engine state and the mood writer unchanged.
C18_UnchangedLogReturnsCache ==
  [][(/\ ret'.op = "get_day_analysis"
      /\ Log.exists
      /\ FileSize(Log.data) = last_file_size
      /\ analysis_cache # <<>>)
       => /\ ret'.result = analysis_cache
          /\ ret'.trace = <<>>
          /\ ret'.saves = 0
          /\ UNCHANGED <<engineVars, historyVars, mood_history>>]_vars

C18_Witness ==
  /\ ret.op = "get_day_analysis"
  /\ ret.grew = 0
  /\ ret.trace = <<>>
  /\ ret.result # <<>>
  /\ ret.result = analysis_cache
  /\ ret.before = analysis_cache
  /\ FileSize(Log.data) = last_file_size

FullAnalysis ==
  /\ ret'.op = "analyze_sentiment"
  /\ ret' # ret
  /\ ~ret'.hit /\ ~ret'.raised /\ ~IsBlank(ret'.text)

\* C21: the linguistic layer adds the sarcasm adjustment, then caps a crisis
\* text at -0.7, then adds the venting boost: on a text that is both crisis
\* and venting the boost comes on top of the cap.
C21_VentingAfterCrisisCap ==
  [][(/\ FullAnalysis
      /\ Parts(Engine, ret'.text, hour).crisis.is_crisis
      /\ Parts(Engine, ret'.text, hour).venting.is_venting)
       => LET p == Parts(Engine, ret'.text, hour)
          IN  ret'.score =
                ClampFinal(Phase3Score(
                  Min(p.phase1_score + p.sarcasm_adj, CrisisCap) + p.venting.adj,
                  p.gaming_adj, p.idiom.adj, p.ctx.adj))]_vars

\* the sum of the adjustments of the three phases that raise the score
PositiveEnhancement(p) ==
  Max(0, p.profanity_adj) + Max(0, p.sarcasm_adj)
    + (IF p.venting.is_venting THEN Max(0, p.venting.adj) ELSE 0)
    + Max(0, p.gaming_adj) + Max(0, p.idiom.adj) + Max(0, p.ctx.adj)

\* C22: whenever the blended score is at least -0.1 and the positive
\* adjustments of the later layers add up to more than 0.4, analyze_sentiment
\* returns at least 0.4.
C22_StrongPositiveOverride ==
  [][(/\ FullAnalysis
      /\ Parts(Engine, ret'.text, hour).blended_score >= -10
      /\ PositiveEnhancement(Parts(Engine, ret'.text, hour)) > 40)
       => ret'.score >= 40]_vars

\* C23: the statistical layer is a chain: the anomaly check records and
\* tests the blended score with the profanity correction added, and the
\* circadian normalization and its EMA update take the value the anomaly
\* damping has lowered.
C23_StatisticalLayerChained ==
  [][FullAnalysis
       => LET p == Parts(Engine, ret'.text, hour)
              corrected == p.blended_score + p.profanity_adj
              a == detect_statistical_anomaly(sentiment_history, corrected)
              damped == corrected - (IF a.is_anomaly THEN a.adj ELSE 0)
          IN  /\ sentiment_history' = a.window
              /\ circadian' = update_circadian_profile(circadian, hour, damped)]_vars

\* the keys of a result cache, oldest first
CacheKeys(cache) == [i \in 1..Len(cache) |-> cache[i].key]

\* C24: the result cache never holds more than 100 entries; a call that
\* inserts a new key into a cache of 100 entries leaves the 80 entries
\* inserted last, in their order, followed by the new one; below capacity the
\* new entry is put behind the others; a cache hit changes nothing.
C24_CacheBounded ==
  [][/\ Len(sentiment_cache') <= cache_max_size
     /\ CacheKeys(sentiment_cache') =
          LastN(obs'.inserted, Len(sentiment_cache'))
     /\ ret'.op = "analyze_sentiment" =>
          LET new == [key |-> CacheKey(ret'.text), score |-> ret'.score]
          IN  IF ret'.hit
              THEN sentiment_cache' = sentiment_cache
              ELSE IF Len(sentiment_cache) = cache_max_size
              THEN /\ sentiment_cache' = Append(LastN(sentiment_cache, cache_keep), new)
                   /\ CacheKeys(sentiment_cache') =
                        Append(LastN(obs.inserted, cache_keep), new.key)
              ELSE sentiment_cache' = Append(sentiment_cache, new)]_vars

\* the cache has been full, an insertion has evicted the oldest 20 and a
\* later call for a key that stayed was answered from the cache
C24_Witness ==
  /\ Len(obs.inserted) > cache_max_size
  /\ Len(sentiment_cache) = cache_keep + 1
  /\ ret.op = "analyze_sentiment" /\ ret.hit
  /\ ~CacheHas(sentiment_cache, CacheKey(CacheText(1)))

\* a profile of 24 hours with every baseline in [-1, 1]
WholeProfile(profile) ==
  /\ DOMAIN profile = Hours
  /\ \A h \in Hours : -BaselineUnit <= profile[h] /\ profile[h] <= BaselineUnit

\* C25: the circadian profile the engine has persisted always has the 24
\* hours as its keys and baselines in [-1, 1]: the file holds such a profile
\* whenever it holds a JSON document, and what load_circadian_profile makes
\* of the file is such a profile in every state, after writes that failed,
\* with a file that cannot be opened and after overlapping callers.
C25_ProfileWhole ==
  /\ circadian # NotJson => WholeProfile(circadian)
  /\ WholeProfile(load_circadian_profile(circadian))

\* overlapping callers have left a profile in the file that has a baseline
\* above 0 at one hour and one below 0 at another
C25_Witness ==
  /\ circadian # NotJson
  /\ \E h \in Hours : circadian[h] > 0
  /\ \E h \in Hours : circadian[h] < 0
  /\ ret.op = "normalize_race"

\* C26: normalize_by_time(score) returns the baseline the hour had before
\* the call and normalized = score - 0.2 * (score - that baseline), then
\* stores 0.1 * score + 0.9 * old for the current hour, from the score it was
\* given, and leaves the baselines of the 23 other hours as they were (while
\* the profile file can be opened; sums to the rounding of the last digit).
C26_NormalizeFrame ==
  [][(ret'.op = "normalize_by_time" /\ ~Down("circadian"))
       => LET before == IF circadian = NotJson THEN DefaultProfile ELSE circadian
              old == before[hour]
              s == (BaselineUnit \div ScoreUnit) * ret'.score
              normalized == (BaselineUnit \div ScoreUnit) * ret'.result
          IN  /\ ret'.baseline = old
              /\ Abs(5 * normalized - (4 * s + old))
                    <= 5 * ((BaselineUnit \div ScoreUnit) \div 2) + 3
              /\ Abs(10 * circadian'[hour] - (s + 9 * old)) <= 5
              /\ DOMAIN circadian' = Hours
              /\ \A h \in Hours \ {hour} : circadian'[h] = before[h]]_vars

\* a call at an hour whose baseline was not 0 and not the score, with the
\* baseline of another hour not 0 either
C26_Witness ==
  /\ ret.op = "normalize_by_time"
  /\ ~Down("circadian")
  /\ ret.baseline # 0
  /\ ret.baseline # (BaselineUnit \div ScoreUnit) * ret.score
  /\ ret.result # ret.score
  /\ circadian # NotJson
  /\ \E h \in Hours \ {hour} : circadian[h] # 0

\* the sum of the squares of the scores of a window
SumSquares(w) == SumSeq([i \in 1..Len(w) |-> w[i] * w[i]])

\* C27: detect_statistical_anomaly puts the score behind the window first,
\* dropping the oldest score of a window of 10, and judges the window it has
\* then: with fewer than 3 scores, or a sample standard deviation below 0.01,
\* it returns (False, 0.0); otherwise it returns an anomaly exactly when
\* z = (score - mean) / stdev < -2.0, with the damping 0.05 * |z|, and
\* (False, 0.0) when z >= -2.0.  With n scores of sum S and sum of squares
\* SS, n (n-1) stdev^2 = n SS - S^2 and z n stdev = n score - S.
C27_AnomalyRule ==
  [][ret'.op = "detect_statistical_anomaly"
       => LET w == sentiment_history'
              n == Len(w)
              score == ret'.score
              S == SumSeq(w)
              V == n * SumSquares(w) - S * S
              e == n * score - S
              adj == ret'.result
          IN  /\ w = (IF Len(sentiment_history) < WindowLen
                      THEN Append(sentiment_history, score)
                      ELSE Append(Tail(sentiment_history), score))
              /\ n <= WindowLen
              /\ (n < 3 \/ V < n * (n - 1))
                   => ~ret'.is_anomaly /\ adj = 0
              /\ (n >= 3 /\ V >= n * (n - 1))
                   => /\ ret'.is_anomaly <=> (e < 0 /\ e * e * (n - 1) > 4 * n * V)
                      /\ ~ret'.is_anomaly => adj = 0
                      /\ ret'.is_anomaly =>
                           /\ adj * adj * n * V <= 25 * e * e * (n - 1)
                           /\ (adj + 1) * (adj + 1) * n * V > 25 * e * e * (n - 1)]_vars

\* a window of 10 that has dropped its oldest score and whose new score is
\* an anomaly
C27_Witness ==
  /\ ret.op = "detect_statistical_anomaly"
  /\ obs.calls > WindowLen
  /\ Len(sentiment_history) = WindowLen
  /\ ret.is_anomaly /\ ret.result > 0

\* a window of three scores or more that are not all the same and whose
\* standard deviation is below 0.01
C27_FlatWitness ==
  /\ ret.op = "detect_statistical_anomaly"
  /\ Len(sentiment_history) >= 3
  /\ \E i \in 1..Len(sentiment_history) : sentiment_history[i] # sentiment_history[1]
  /\ \A i \in 1..Len(sentiment_history) : sentiment_history[i] \in {5, 6}
  /\ ~ret.is_anomaly

\* C28: reset_analysis_cache empties the rolling window: when it returns, the
\* rolling window, the result cache and the history cache are empty and the
\* recorded log size is 0, as when the process started.
C28_ResetRestoresInitial ==
  ret.op = "reset_analysis_cache" =>
    /\ sentiment_history = <<>>
    /\ sentiment_cache = <<>>
    /\ analysis_cache = <<>>
    /\ last_file_size = 0

\* C29: a call of check_and_add_guardian_alert that finds more than
\* ALERT_LIMIT negative lines puts exactly one record, with that count and
\* those lines, in front of the records of the alert log, which stay as they
\* were and in their order; a call that finds ALERT_LIMIT or fewer leaves the
\* alert log as it was.
C29_OneRecordInFront ==
  [][ret'.op = "check_and_add_guardian_alert"
       => LET old == IF alerts_log[cwd].exists THEN alerts_log[cwd].data ELSE <<>>
              new == alerts_log'[cwd].data
          IN  IF ret'.count > ALERT_LIMIT
              THEN /\ alerts_log'[cwd].exists
                   /\ Len(new) = Len(old) + 1
                   /\ new[1].negative_count = ret'.count
                   /\ new[1].reason_lines = ret'.neg_lines
                   /\ new[1].status = "Sent"
                   /\ Tail(new) = old
                   /\ \A d \in Dirs \ {cwd} : alerts_log'[d] = alerts_log[d]
              ELSE alerts_log' = alerts_log]_vars

\* the second trigger of a session has put its record in front of the first,
\* which has another date
C29_Witness ==
  /\ ret.op = "check_and_add_guardian_alert"
  /\ ret.triggered
  /\ Len(alerts_log[cwd].data) = 2
  /\ alerts_log[cwd].data[1].date = hour
  /\ alerts_log[cwd].data[2].date # hour

\* C30: the state the guardian dashboard reports is "Armed" exactly when the
\* count of negative lines since last_alert_line it has read is above
\* ALERT_LIMIT, and "Waiting" otherwise.
C30_ArmedAboveLimit ==
  ret.op = "get_current_alert_state" =>
    /\ ret.state \in {"Armed", "Waiting"}
    /\ ret.state = "Armed" <=> ret.count > ALERT_LIMIT

\* C31: whenever an alert check can run, in the first session and in the one
\* that follows a teardown, last_alert_line is at most the number of lines of
\* the log, so that no line appended later lies behind the pointer.
C31_PointerWithinLog ==
  session = "running" => get_alert_status <= Len(Log.data)

\* a session that follows one whose pointer had advanced, with lines in its
\* log again and a check that has counted them
C31_Witness ==
  /\ session = "running"
  /\ obs.sessions = 2
  /\ sent # <<>>
  /\ ret.op = "check_and_add_guardian_alert"
  /\ ret.count > 0
  /\ ret.start = 0

\* C32: lines the capture source appends between the read of an alert check
\* and its commit are not skipped: a check that triggers sets the pointer to
\* the number of lines its read saw, whatever the log holds by then, and the
\* next read scores every line after the pointer, the lines appended since
\* that read among them.
C32_AppendedLinesNotSkipped ==
  [][/\ (checking # NoCheck /\ checking' = NoCheck /\ ret'.triggered)
          => /\ alert_status'[cwd].data = checking.total
             /\ alert_status'[cwd].data <= Len(Log.data)
     /\ (checking = NoCheck /\ checking' # NoCheck)
          => /\ checking'.total = Len(Log.data)
             /\ {ret'.trace[i].line : i \in 1..Len(ret'.trace)}
                  = {i \in (get_alert_status + 1)..Len(Log.data) : Strip(Log.data[i]) # <<>>}
             /\ checking'.count =
                  Cardinality({i \in (get_alert_status + 1)..Len(Log.data) :
                                 Log.data[i] = Sad})]_vars

\* a read that follows a commit the capture source had overtaken, and counts
\* a negative line appended between that commit's read and the commit
C32_Witness ==
  /\ checking # NoCheck
  /\ obs.overtaken
  /\ get_alert_status > 0
  /\ get_alert_status < checking.total
  /\ checking.count > 0

\* C33: on the window-close exit the finally block of main, which follows
\* on_close, flushes every entry still in the mood buffer into the mood
\* history of the user who closes: the entries end that user's file, and the
\* history file of the original directory is left as it was.
C33_CloseFlushesToUser ==
  [][(ret.op = "on_close" /\ ret'.op = "finally")
       => /\ LastN(mood_history'["user"].data, Len(mood_buffer)) = mood_buffer
          /\ mood_history'["orig"] = mood_history["orig"]
          /\ mood_buffer' = <<>>]_vars

\* C38: detect_statistical_anomaly reports an anomaly only on a window of 6
\* scores or more, and the damping it then returns, 0.05 * |z|, is above 0.1
\* and at most 0.05 * 9 / sqrt(10), about 0.1424.  With n scores of sum S and
\* sum of squares SS, e = n score - S and V = n SS - S^2:
\* z^2 = e^2 (n-1) / (n V), so |z| > 2 iff e^2 (n-1) > 4 n V and
\* |z| <= 9 / sqrt(10) iff 10 e^2 (n-1) <= 81 n V.
C38_AnomalyNeedsSix ==
  (ret.op = "detect_statistical_anomaly" /\ ret.is_anomaly) =>
    LET w == sentiment_history
        n == Len(w)
        S == SumSeq(w)
        V == n * SumSquares(w) - S * S
        e == n * ret.score - S
    IN  /\ n >= 6
        /\ e * e * (n - 1) > 4 * n * V
        /\ 10 * e * e * (n - 1) <= 81 * n * V
        /\ ret.result >= 10
        /\ ret.result <= 14

\* an anomaly on a window of six scores
C38_Witness ==
  /\ ret.op = "detect_statistical_anomaly"
  /\ ret.is_anomaly
  /\ Len(sentiment_history) = 6
  /\ ret.result >= 10

\* the largest damping: nine equal scores and the tenth far below them
C38_LargestWitness ==
  /\ ret.op = "detect_statistical_anomaly"
  /\ ret.is_anomaly
  /\ Len(sentiment_history) = WindowLen
  /\ ret.result = 14
  /\ \A i \in 1..9 : sentiment_history[i] = sentiment_history[1]

====
